---- MODULE Spec2Model ----
(***************************************************************************)
(* Verification model of the market-engine order book.                     *)
(*                                                                         *)
(*   src/include/order_book.hpp   Order, OrderBook (four std::map members) *)
(*   src/src/order_book.cpp       validate_inputs, add_order,              *)
(*                                execute_and_print_trades,                *)
(*                                print_order_book                         *)
(*   src/unnamed/part_000         main: the read / add / match / print loop*)
(*                                                                         *)
(* Tokens read by `cin >> string` are modelled as sequences of one-        *)
(* character strings, e.g. "9.8" is <<"9", ".", "8">>.  Prices are parsed  *)
(* the way the code parses them: std::stof to an IEEE-754 binary32 value,  *)
(* a binary32 multiplication by SCALE_FACTOR, and a truncating cast to     *)
(* long.  A binary32 value is the record [m, e] standing for m * 2^e with  *)
(* 2^23 <= m < 2^24 (or m = 0).                                            *)
(***************************************************************************)
EXTENDS Integers, Sequences, FiniteSets, TLC

VARIABLES
    buy_orders,                  \* map<long, deque<Order>>  (order_book.hpp:45)
    sell_orders,                 \* map<long, deque<Order>>  (order_book.hpp:46)
    total_buy_orders_at_price,   \* map<long, long long>     (order_book.hpp:49)
    total_sell_orders_at_price,  \* map<long, long long>     (order_book.hpp:50)
    timestamp,                   \* main's counter           (part_000:16)
    side, quantity, price,       \* main's input variables   (part_000:12-13)
    success,                     \* return value of add_order (part_000:20)
    validation_result,           \* add_order's local        (order_book.cpp:56)
    best_buy_order,              \* matching-loop local      (order_book.cpp:81)
    best_sell_order,             \* matching-loop local      (order_book.cpp:82)
    trade_quantity,              \* matching-loop local      (order_book.cpp:89)
    out,                         \* what was written to stdout since the last read
    attempts,                    \* number of submissions extracted from cin so far
    pc                           \* position of the program

book == <<buy_orders, sell_orders, total_buy_orders_at_price,
          total_sell_orders_at_price>>

\* The alternate, heap-based program (src/unnamed/part_001; src/main.cpp
\* is the same program without validate_inputs).  An Order* is the address
\* of the object, `allocated` maps the addresses of the live objects to
\* their contents; names the two programs share carry the prefix alt_.
VARIABLES
    buy_order_queue,             \* priority_queue<Order*, ..., CompareBuyOrders>   (part_001:68)
    sell_order_queue,            \* priority_queue<Order*, ..., CompareSellOrders>  (part_001:69)
    buy_order_set,               \* set<Order*, CompareBuyOrders>                   (part_001:72)
    sell_order_set,              \* set<Order*, CompareSellOrders>                  (part_001:73)
    allocated,                   \* the objects made by `new Order` and not deleted
    alt_timestamp,               \* main's counter                                  (part_001:231)
    alt_success,                 \* return value of add_order                       (part_001:235)
    alt_best_buy_order,          \* matching-loop local, an Order*                  (part_001:167)
    alt_best_sell_order,         \* matching-loop local, an Order*                  (part_001:168)
    alt_out,                     \* what was written to stdout since the last read
    alt_pc                       \* position of the program

alt_vars == <<buy_order_queue, sell_order_queue, buy_order_set, sell_order_set,
              allocated, alt_timestamp, alt_success, alt_best_buy_order,
              alt_best_sell_order, alt_out, alt_pc>>

vars == <<buy_orders, sell_orders, total_buy_orders_at_price,
          total_sell_orders_at_price, timestamp, side, quantity, price,
          success, validation_result, best_buy_order, best_sell_order,
          trade_quantity, out, attempts, pc, alt_vars>>

(***************************************************************************)
(* Bounds of the model.                                                    *)
(***************************************************************************)
\* Number of submissions the input stream holds at most.
MaxSubmissions == 4

(***************************************************************************)
(* Program constants.                                                      *)
(***************************************************************************)
SCALE_FACTOR == 1000

COLUMN_WIDTH == 15

\* binary32: 24 significant bits.
FloatMantBits == 24

\* SCALE_FACTOR = ScaleOdd * 2^ScaleShift; the product mantissa * ScaleOdd
\* stays below 2^31.
ScaleOdd == 125

ScaleShift == 3

\* FLT_MAX < 10^39: a decimal value with 40 or more integer digits is out
\* of binary32's range.
FloatMaxDecimalDigits == 39

\* FLT_MIN > 10^-38: a decimal value below 10^-38 is below the smallest
\* normal binary32 value.
FloatMinDecimalExp == 38

(***************************************************************************)
(* Small helpers.                                                          *)
(***************************************************************************)
RECURSIVE Pow2(_)
Pow2(n) == IF n = 0 THEN 1 ELSE 2 * Pow2(n - 1)

RECURSIVE Pow10(_)
Pow10(n) == IF n = 0 THEN 1 ELSE 10 * Pow10(n - 1)

SetMax(S) == CHOOSE x \in S : \A y \in S : y <= x

SetMin(S) == CHOOSE x \in S : \A y \in S : x <= y

Min2(a, b) == IF a < b THEN a ELSE b

RECURSIVE SumSeq(_)
SumSeq(s) == IF s = <<>> THEN 0 ELSE Head(s) + SumSeq(Tail(s))

\* n copies of the character c.
Rep(c, n) == [i \in 1..n |-> c]

(***************************************************************************)
(* Characters and the two regular expressions of validate_inputs.          *)
(***************************************************************************)
DigitChars == <<"0", "1", "2", "3", "4", "5", "6", "7", "8", "9">>

Digits == {DigitChars[i] : i \in 1..10}

DigitVal(c) == (CHOOSE i \in 1..10 : DigitChars[i] = c) - 1

\* Variant: "^[0-9]+$", a leading zero is let through.
QuantityRegexMatch_lenient(tok) ==
    /\ Len(tok) >= 1
    /\ \A i \in 1..Len(tok) : tok[i] \in Digits

\* regex_match(quantity, "^[1-9][0-9]*$")
QuantityRegexMatch(tok) ==
    /\ Len(tok) >= 1
    /\ tok[1] \in Digits \ {"0"}
    /\ \A i \in 2..Len(tok) : tok[i] \in Digits

\* regex_match(price, "^[0-9]*\\.?[0-9]+$"): digits, then at most one '.',
\* then at least one digit.
PriceRegexMatch(tok) ==
    /\ Len(tok) >= 1
    /\ \A i \in 1..Len(tok) : tok[i] \in Digits \cup {"."}
    /\ Cardinality({i \in 1..Len(tok) : tok[i] = "."}) <= 1
    /\ tok[Len(tok)] \in Digits

(***************************************************************************)
(* Inputs.                                                                 *)
(***************************************************************************)
\* A 40-digit price (10^39, above FLT_MAX) and a price of 10^-50.
HugePrice == <<"1">> \o Rep("0", 39)

TinyPrice == <<"0", ".">> \o Rep("0", 49) \o <<"1">>

\* Submissions the main loop is driven with: every combination of the
\* accepted tokens, and submissions with one or several bad fields.
AcceptedSides == {"B", "S"}

AcceptedQuantities == {<<"1">>, <<"2">>}

AcceptedPrices ==
    { <<"9", ".", "8">>, <<"1", "0", ".", "2", "3", "4", "5">>,
      <<"1", "0", "0", "0", ".", "0", "0", "1">> }

RejectedInputs ==
    { <<"N", <<"1">>, <<"9", ".", "8">> >>,
      <<"B", <<"0">>, <<"1", "0", ".", "2", "3", "4", "5">> >>,
      <<"S", <<"2">>, <<"0", ".", "0", "0", "0", "9">> >>,
      <<"b", <<"0", "1">>, <<"-", "1">> >>,
      <<"S", <<"1">>, TinyPrice>> }

\* A submission of valid syntax whose price is above FLT_MAX.
OutOfRangeInputs == { <<"B", <<"1">>, HugePrice>> }

MainInputs ==
    (AcceptedSides \X AcceptedQuantities \X AcceptedPrices)
        \cup RejectedInputs \cup OutOfRangeInputs

\* A submission of valid syntax whose cell text, 100000000@1000.001, is 18
\* characters long.
WideInputs ==
    { <<"B", <<"1", "0", "0", "0", "0", "0", "0", "0", "0">>,
        <<"1", "0", "0", "0", ".", "0", "0", "1">> >> }

DisplayInputs == MainInputs \cup WideInputs

\* Tokens validate_inputs is applied to on its own.
Sides == {"B", "S", "N", "b"}

QuantityTokens ==
    { <<"1">>, <<"2">>, <<"4", "0">>,
      <<"0">>, <<"0", "1">>, <<"-", "1">>, <<"1", ".", "5">>, <<"x">>,
      <<>>, <<"+", "1">>, <<"1", "x">>, <<"0", "0">> }

PriceTokens ==
    { <<"9", ".", "8">>, <<"1", "0">>, <<"1", "0", ".", "2", "3", "4", "5">>,
      <<"1", "0", "0", "0", ".", "0", "0", "1">>, <<".", "5">>, <<"0", ".", "0", "0", "1">>,
      <<"0", ".", "0", "0", "0", "9">>, <<"0">>, <<"-", "1">>, <<"1", ".">>,
      <<"1", ".", "2", ".", "3">>, <<"a", "b", "c">>,
      <<"1", "1">>, <<"1", "0", ".", "2", "2", "2", "2">>,
      <<"0", ".", "2", "5">>, <<"0", ".", "2", "5", "1">>,
      <<"1", "0", "0", "0">>,
      HugePrice, TinyPrice }

(***************************************************************************)
(* std::stol on a token that matched the quantity regex.                   *)
(***************************************************************************)
RECURSIVE DecimalValue(_)
DecimalValue(ds) ==
    IF ds = <<>> THEN 0
    ELSE 10 * DecimalValue(SubSeq(ds, 1, Len(ds) - 1)) + DigitVal(ds[Len(ds)])

stol(tok) == DecimalValue(tok)

(***************************************************************************)
(* std::stof on a token that matched the price regex.                      *)
(***************************************************************************)
\* Position of the decimal point, Len+1 when there is none.
DotPos(tok) ==
    IF \E i \in 1..Len(tok) : tok[i] = "."
    THEN CHOOSE i \in 1..Len(tok) : tok[i] = "."
    ELSE Len(tok) + 1

IntDigits(tok) == SubSeq(tok, 1, DotPos(tok) - 1)

FracDigits(tok) == SubSeq(tok, DotPos(tok) + 1, Len(tok))

RECURSIVE StripLeadingZeros(_)
StripLeadingZeros(ds) ==
    IF ds # <<>> /\ Head(ds) = "0" THEN StripLeadingZeros(Tail(ds)) ELSE ds

\* The significant digits of the token, and the decimal magnitude mag of
\* its value v: 10^(mag-1) <= v < 10^mag when v > 0.
SignificantDigits(tok) == StripLeadingZeros(IntDigits(tok) \o FracDigits(tok))

DecimalMagnitude(tok) == Len(SignificantDigits(tok)) - Len(FracDigits(tok))

\* (m + r/D) * 2^e with m < 2^25: shift left, one quotient bit at a time,
\* until m has 25 bits (24 bits and a guard bit).
RECURSIVE NormUp(_, _, _, _)
NormUp(m, r, D, e) ==
    IF m >= Pow2(FloatMantBits) THEN [m |-> m, sticky |-> r # 0, e |-> e]
    ELSE IF 2 * r >= D THEN NormUp(2 * m + 1, 2 * r - D, D, e - 1)
                       ELSE NormUp(2 * m, 2 * r, D, e - 1)

\* Shift right until m has 25 bits, remembering whether a one was dropped.
RECURSIVE NormDown(_, _, _)
NormDown(m, sticky, e) ==
    IF m < Pow2(FloatMantBits + 1) THEN [m |-> m, sticky |-> sticky, e |-> e]
    ELSE NormDown(m \div 2, sticky \/ (m % 2 = 1), e + 1)

\* Round a 25-bit value to 24 bits, to nearest, ties to even.
RoundNearestEven(x) ==
    LET mant == x.m \div 2
        up   == (x.m % 2 = 1) /\ (x.sticky \/ mant % 2 = 1)
        m2   == IF up THEN mant + 1 ELSE mant
    IN  IF m2 = Pow2(FloatMantBits)
        THEN [m |-> Pow2(FloatMantBits - 1), e |-> x.e + 2]
        ELSE [m |-> m2, e |-> x.e + 1]

\* The binary32 value nearest to N / D  (N > 0).
NearestFloat(N, D) ==
    LET q == N \div D
        r == N % D
    IN  IF q >= Pow2(FloatMantBits + 1)
        THEN RoundNearestEven(NormDown(q, r # 0, 0))
        ELSE RoundNearestEven(NormUp(q, r, D, 0))

\* std::stof: the parsed value, or the exception it throws.  libstdc++
\* throws std::out_of_range when strtof reports ERANGE, which it does for
\* a value above FLT_MAX and for a non-zero value below FLT_MIN.
ParseFloat(tok) ==
    LET sig == SignificantDigits(tok)
        mag == DecimalMagnitude(tok)
    IN  CASE sig = <<>> -> [kind |-> "float", m |-> 0, e |-> 0]
          [] sig # <<>> /\ mag > FloatMaxDecimalDigits -> [kind |-> "out_of_range"]
          [] sig # <<>> /\ mag < -FloatMinDecimalExp -> [kind |-> "out_of_range"]
          [] sig # <<>> /\ mag <= 9 /\ Len(sig) <= 9 /\ Len(FracDigits(tok)) <= 9 ->
                LET f == NearestFloat(DecimalValue(sig), Pow10(Len(FracDigits(tok))))
                IN  [kind |-> "float", m |-> f.m, e |-> f.e]

\* stof on the price tokens of the model, each parsed once.
StofTable == [tok \in {t \in PriceTokens : PriceRegexMatch(t)} |-> ParseFloat(tok)]

stof(tok) == StofTable[tok]

\* f < 1.0/SCALE_FACTOR, the binary32 value promoted to double and compared
\* with the double nearest to 0.001.  No binary32 value lies between 0.001
\* and that double, so the comparison is f * SCALE_FACTOR < 1 in exact
\* arithmetic: (m * ScaleOdd) < 2^-(e + ScaleShift).
FloatLessThanTick(f) ==
    \/ f.m = 0
    \/ LET k == -(f.e + ScaleShift)
       IN  \/ k > 30
           \/ k >= 0 /\ k <= 30 /\ f.m * ScaleOdd < Pow2(k)

\* f * SCALE_FACTOR in binary32 (SCALE_FACTOR converts to 1000.0f exactly).
FloatTimesScale(f) ==
    IF f.m = 0 THEN [m |-> 0, e |-> 0]
    ELSE RoundNearestEven(NormDown(f.m * ScaleOdd, FALSE, f.e + ScaleShift))

\* static_cast<long>(f): truncation toward zero.
FloatToLong(f) ==
    IF f.m = 0 THEN 0
    ELSE IF f.e >= 0 THEN f.m * Pow2(f.e)
    ELSE IF -f.e > FloatMantBits THEN 0
    ELSE f.m \div Pow2(-f.e)

\* static_cast<long>(stof(price_str) * SCALE_FACTOR)   (order_book.cpp:63),
\* computed once for each price token stof parses.
ScaledPriceTable ==
    [tok \in {t \in DOMAIN StofTable : StofTable[t].kind = "float"} |->
        FloatToLong(FloatTimesScale(stof(tok)))]

ScaledPrice(tok) == ScaledPriceTable[tok]

\* stof(price) < 1.0/SCALE_FACTOR   (order_book.cpp:30)
BelowTickTable ==
    [tok \in {t \in DOMAIN StofTable : StofTable[t].kind = "float"} |->
        FloatLessThanTick(stof(tok))]

BelowTick(tok) == BelowTickTable[tok]

(***************************************************************************)
(* Rendering of prices.  The scaled prices the model's tokens produce are  *)
(* below 2^24, so `p * 1.0f` is exact and `/ SCALE_FACTOR` is the binary32 *)
(* nearest to p / 1000.                                                    *)
(***************************************************************************)
ModelPrices == {ScaledPriceTable[t] : t \in DOMAIN ScaledPriceTable}

\* trade_price * 1.0f / SCALE_FACTOR  (order_book.cpp:94, 140)
PriceAsFloat(p) == IF p = 0 THEN [m |-> 0, e |-> 0] ELSE NearestFloat(p, SCALE_FACTOR)

\* x / d rounded to the nearest integer, ties to even.
RoundDiv(x, d) ==
    LET q == x \div d
        r == x % d
    IN  IF 2 * r > d \/ (2 * r = d /\ q % 2 = 1) THEN q + 1 ELSE q

\* `cout << float` (order_book.cpp:94) writes the value rounded to six
\* significant decimal digits; the result is given in thousandths.  A
\* price below 1000.000 has at most six significant digits and the
\* binary32 quotient is within 2^-24 of it, so it is written exactly.  A
\* price from 1000.000 up to 9999.999 is written with two decimals.
PrintedTradePriceOf(p) ==
    CASE p < 1000000 -> p
      [] p >= 1000000 /\ p < 10000000 ->
            LET f == PriceAsFloat(p)
            IN  10 * RoundDiv(f.m * 100, Pow2(-f.e))

PrintedTradePriceTable == [p \in ModelPrices |-> PrintedTradePriceOf(p)]

PrintedTradePrice(p) == PrintedTradePriceTable[p]

\* std::format("{}", float) (order_book.cpp:140) writes the shortest
\* decimal that reads back as the same binary32 value: the text denotes
\* that value, which is what a cell records.
DisplayedPriceTable == [p \in ModelPrices |-> PriceAsFloat(p)]

DisplayedPrice(p) == DisplayedPriceTable[p]

\* Order of two non-negative binary32 values.
FloatLess(f, g) ==
    IF g.m = 0 THEN FALSE
    ELSE IF f.m = 0 THEN TRUE
    ELSE f.e < g.e \/ (f.e = g.e /\ f.m < g.m)

(***************************************************************************)
(* validate_inputs and input_validation_message  (order_book.cpp:13-50).   *)
(***************************************************************************)
ValidationResult == {"VALID", "INVALID_SIDE", "INVALID_QUANTITY", "INVALID_PRICE"}

\* The value returned, or "OUT_OF_RANGE" when std::stof throws
\* std::out_of_range out of validate_inputs.
validate_inputs(s, q, p) ==
    IF s # "B" /\ s # "S" THEN "INVALID_SIDE"
    ELSE IF ~QuantityRegexMatch(q) THEN "INVALID_QUANTITY"
    ELSE IF ~PriceRegexMatch(p) THEN "INVALID_PRICE"
    ELSE IF stof(p).kind = "out_of_range" THEN "OUT_OF_RANGE"
    ELSE IF BelowTick(p) THEN "INVALID_PRICE"
    ELSE "VALID"

input_validation_message(result) ==
    CASE result = "VALID" -> "Good"
      [] result = "INVALID_SIDE" -> "Side should be either 'B' or 'S'"
      [] result = "INVALID_QUANTITY" -> "Order quantity should be a positive integer"
      [] result = "INVALID_PRICE" -> "Price should be a positive value >= tick size (0.001)"
      [] OTHER -> "Unknown validation result"

(***************************************************************************)
(* std::map and std::deque operations.                                     *)
(***************************************************************************)
EmptyMap == [k \in {} |-> 0]

\* m[k] as an rvalue: operator[] value-initialises a missing key.
MapAt(m, k, default) == IF k \in DOMAIN m THEN m[k] ELSE default

\* m[k] = v
MapPut(m, k, v) == [x \in DOMAIN m \cup {k} |-> IF x = k THEN v ELSE m[x]]

\* m.erase(k)
MapErase(m, k) == [x \in DOMAIN m \ {k} |-> m[x]]

\* Order(s, q, p, t)   (order_book.hpp:16-23)
Order(s, q, p, t) == [side |-> s, quantity |-> q, price |-> p, timestamp |-> t]

NoOrder == [side |-> "", quantity |-> 0, price |-> 0, timestamp |-> 0]

\* Variant: the order is put at the front of the queue.
EmplaceBack_front(m, k, o) == MapPut(m, k, <<o>> \o MapAt(m, k, <<>>))

\* m[k].emplace_back(o)
EmplaceBack(m, k, o) == MapPut(m, k, Append(MapAt(m, k, <<>>), o))

\* Variant: begin() where rbegin() is meant.
RBeginKey_lowest(m) == SetMin(DOMAIN m)

\* buy_orders.rbegin()->first and sell_orders.begin()->first
RBeginKey(m) == SetMax(DOMAIN m)

\* Variant: rbegin() where begin() is meant.
BeginKey_highest(m) == SetMax(DOMAIN m)

BeginKey(m) == SetMin(DOMAIN m)

\* m[k].front().quantity -= n
FrontMinus(m, k, n) ==
    [m EXCEPT ![k] = [@ EXCEPT ![1] = [@ EXCEPT !.quantity = @ - n]]]

\* Variant: the order at the back of the queue is removed.
PopFront_back(m, k) == [m EXCEPT ![k] = SubSeq(@, 1, Len(@) - 1)]

\* Variant: the aggregate is assigned the quantity.
AggregatePlus_assign(totals, k, n) == MapPut(totals, k, n)

\* totals[k] += n and totals[k] -= n  (order_book.cpp:70-71, 103-104)
AggregatePlus(totals, k, n) == MapPut(totals, k, MapAt(totals, k, 0) + n)

\* Variant: the aggregate is left as it was.
AggregateMinus_none(totals, k, n) == totals

AggregateMinus(totals, k, n) == MapPut(totals, k, MapAt(totals, k, 0) - n)

\* Variant: the filled order is left in its queue.
PopFront_none(m, k) == m

\* m[k].pop_front()
PopFront(m, k) == [m EXCEPT ![k] = Tail(@)]

(***************************************************************************)
(* OrderBook::add_order  (order_book.cpp:53-74), as the values it leaves   *)
(* in the four maps, what it prints and what it returns.  returned is      *)
(* FALSE when the call is left by an exception.                            *)
(***************************************************************************)
add_order(s, quantity_str, price_str, t) ==
    LET result == validate_inputs(s, quantity_str, price_str)
        p      == ScaledPrice(price_str)
        q      == stol(quantity_str)
        same   == [buy_orders  |-> buy_orders,
                   sell_orders |-> sell_orders,
                   total_buy_orders_at_price  |-> total_buy_orders_at_price,
                   total_sell_orders_at_price |-> total_sell_orders_at_price]
    IN  IF result = "OUT_OF_RANGE"
        THEN [validation_result |-> result, returned |-> FALSE, success |-> FALSE,
              printed |-> <<>>, maps |-> same]
        ELSE IF result # "VALID"
        THEN [validation_result |-> result, returned |-> TRUE, success |-> FALSE,
              printed |-> <<[kind |-> "error", text |-> input_validation_message(result)]>>,
              maps |-> same]
        ELSE [validation_result |-> result, returned |-> TRUE, success |-> TRUE,
              printed |-> <<>>,
              maps |-> IF s = "B"
                       THEN [same EXCEPT
                               !.buy_orders = EmplaceBack(buy_orders, p, Order(s, q, p, t)),
                               !.total_buy_orders_at_price =
                                   AggregatePlus(total_buy_orders_at_price, p, q)]
                       ELSE [same EXCEPT
                               !.sell_orders = EmplaceBack(sell_orders, p, Order(s, q, p, t)),
                               !.total_sell_orders_at_price =
                                   AggregatePlus(total_sell_orders_at_price, p, q)]]

(***************************************************************************)
(* Initial state of the heap-based program: main before its first read     *)
(* (part_001:225-233).  NullPointer stands for a pointer variable that has *)
(* not been given a value.                                                 *)
(***************************************************************************)
NullPointer == 0

AltInit ==
    /\ buy_order_queue = {}
    /\ sell_order_queue = {}
    /\ buy_order_set = {}
    /\ sell_order_set = {}
    /\ allocated = EmptyMap
    /\ alt_timestamp = 0
    /\ alt_success = FALSE
    /\ alt_best_buy_order = NullPointer
    /\ alt_best_sell_order = NullPointer
    /\ alt_out = <<>>
    /\ alt_pc = "read"

(***************************************************************************)
(* Initial state: main before its first read  (part_000:10-18).            *)
(***************************************************************************)
Init ==
    /\ buy_orders = EmptyMap
    /\ sell_orders = EmptyMap
    /\ total_buy_orders_at_price = EmptyMap
    /\ total_sell_orders_at_price = EmptyMap
    /\ timestamp = 0
    /\ side = ""
    /\ quantity = <<>>
    /\ price = <<>>
    /\ success = FALSE
    /\ validation_result = "NONE"
    /\ best_buy_order = NoOrder
    /\ best_sell_order = NoOrder
    /\ trade_quantity = 0
    /\ out = <<>>
    /\ attempts = 0
    /\ pc = "read"
    /\ AltInit

(***************************************************************************)
(* main, one pass of `while (cin >> side >> quantity >> price)` up to the  *)
(* return of add_order  (part_000:19-24).                                  *)
(***************************************************************************)
\* Variant: the counter is passed on without being advanced.
NextTimestamp_stays(t) == t

\* ++timestamp
NextTimestamp(t) == t + 1

\* `cin >> side >> quantity >> price` yields the triple (s, q, p), and
\* add_order is called with it.
ReadAndAdd(s, q, p) ==
    /\ pc = "read"
    /\ attempts' = attempts + 1
    /\ side' = s
    /\ quantity' = q
    /\ price' = p
    /\ timestamp' = NextTimestamp(timestamp)
    /\ LET r == add_order(s, q, p, NextTimestamp(timestamp))
       IN  /\ validation_result' = r.validation_result
           /\ buy_orders' = r.maps.buy_orders
           /\ sell_orders' = r.maps.sell_orders
           /\ total_buy_orders_at_price' = r.maps.total_buy_orders_at_price
           /\ total_sell_orders_at_price' = r.maps.total_sell_orders_at_price
           /\ IF ~r.returned
              THEN \* uncaught std::out_of_range: std::terminate
                   /\ success' = success
                   /\ out' = r.printed
                   /\ pc' = "terminated"
              ELSE /\ success' = r.success
                   /\ IF r.success
                      THEN /\ out' = r.printed
                           /\ pc' = "match"
                      ELSE /\ out' = Append(r.printed,
                                       [kind |-> "prompt",
                                        text |-> "Ignoring input. Please re-enter:"])
                           /\ pc' = "read"
    /\ UNCHANGED <<best_buy_order, best_sell_order, trade_quantity>>

Submit(s, q, p) ==
    /\ attempts < MaxSubmissions
    /\ ReadAndAdd(s, q, p)
    /\ UNCHANGED alt_vars

\* cin reaches the end of the input: the loop ends and main returns.
Eof ==
    /\ pc = "read"
    /\ pc' = "done"
    /\ UNCHANGED <<buy_orders, sell_orders, total_buy_orders_at_price,
                   total_sell_orders_at_price, timestamp, side, quantity, price,
                   success, validation_result, best_buy_order, best_sell_order,
                   trade_quantity, out, attempts>>
    /\ UNCHANGED alt_vars

(***************************************************************************)
(* OrderBook::execute_and_print_trades  (order_book.cpp:76-124).           *)
(*   pc = "match"    at the loop condition, line 80                        *)
(*   pc = "cleanup"  between line 104 and line 106                         *)
(***************************************************************************)
\* buy_orders.rbegin()->second.front() and sell_orders.begin()->second.front()
BestBuyOrder == Head(buy_orders[RBeginKey(buy_orders)])

BestSellOrder == Head(sell_orders[BeginKey(sell_orders)])

\* Variant: the larger of the two quantities.
TradeQuantity_larger(b, a) == IF a.quantity < b.quantity THEN b.quantity ELSE a.quantity

\* line 89
TradeQuantity(b, a) == Min2(b.quantity, a.quantity)

\* Variant: the price of the order that came later.
TradePrice_later(b, a) == IF b.timestamp > a.timestamp THEN b.price ELSE a.price

\* lines 90-91
TradePrice(b, a) == IF b.timestamp > a.timestamp THEN a.price ELSE b.price

\* Variant: the loop also stops when the two prices are equal.
Crosses_strict(b, a) == b.price > a.price

\* line 87: the loop goes on unless buy_order_price < sell_order_price.
Crosses(b, a) == ~(b.price < a.price)

\* line 80: the loop condition is false.
MatchEmpty ==
    /\ pc = "match"
    /\ DOMAIN buy_orders = {} \/ DOMAIN sell_orders = {}
    /\ pc' = "print"
    /\ UNCHANGED <<buy_orders, sell_orders, total_buy_orders_at_price,
                   total_sell_orders_at_price, timestamp, side, quantity, price,
                   success, validation_result, best_buy_order, best_sell_order,
                   trade_quantity, out, attempts>>
    /\ UNCHANGED alt_vars

\* line 87: break.
MatchBreak ==
    /\ pc = "match"
    /\ DOMAIN buy_orders # {} /\ DOMAIN sell_orders # {}
    /\ ~Crosses(BestBuyOrder, BestSellOrder)
    /\ pc' = "print"
    /\ UNCHANGED <<buy_orders, sell_orders, total_buy_orders_at_price,
                   total_sell_orders_at_price, timestamp, side, quantity, price,
                   success, validation_result, best_buy_order, best_sell_order,
                   trade_quantity, out, attempts>>
    /\ UNCHANGED alt_vars

\* lines 81-104: print the trade and take its quantity off both front
\* orders and both aggregates.
MatchFill ==
    /\ pc = "match"
    /\ DOMAIN buy_orders # {} /\ DOMAIN sell_orders # {}
    /\ Crosses(BestBuyOrder, BestSellOrder)
    /\ LET b  == BestBuyOrder
           a  == BestSellOrder
           tq == TradeQuantity(b, a)
       IN  /\ out' = Append(out, [kind |-> "trade", quantity |-> tq,
                                  price |-> PrintedTradePrice(TradePrice(b, a))])
           /\ trade_quantity' = tq
           /\ best_buy_order' = [b EXCEPT !.quantity = @ - tq]
           /\ best_sell_order' = [a EXCEPT !.quantity = @ - tq]
           /\ buy_orders' = FrontMinus(buy_orders, RBeginKey(buy_orders), tq)
           /\ sell_orders' = FrontMinus(sell_orders, BeginKey(sell_orders), tq)
           /\ total_buy_orders_at_price' =
                  AggregateMinus(total_buy_orders_at_price, b.price, tq)
           /\ total_sell_orders_at_price' =
                  AggregateMinus(total_sell_orders_at_price, a.price, tq)
    /\ pc' = "cleanup"
    /\ UNCHANGED <<timestamp, side, quantity, price, success, validation_result,
                   attempts>>
    /\ UNCHANGED alt_vars

\* lines 106-113 and 114-121 for one side: orders and totals are the two
\* maps of the side, o the local copy of its best order, k the key of the
\* level the best order was read from.
CleanupSide(orders, totals, o, k) ==
    IF o.quantity # 0
    THEN [orders |-> orders, totals |-> totals, assert_ok |-> TRUE]
    ELSE LET popped == PopFront(orders, k)
         IN  IF MapAt(totals, o.price, 0) # 0
             THEN [orders |-> popped, totals |-> totals, assert_ok |-> TRUE]
             ELSE IF MapAt(popped, o.price, <<>>) # <<>>
             THEN [orders |-> popped, totals |-> totals, assert_ok |-> FALSE]
             ELSE [orders |-> MapErase(popped, o.price),
                   totals |-> MapErase(totals, o.price), assert_ok |-> TRUE]

\* Variant: `if` where `while` is meant, the function returns after one
\* iteration.
Cleanup_once ==
    /\ pc = "cleanup"
    /\ LET bs == CleanupSide(buy_orders, total_buy_orders_at_price,
                             best_buy_order, RBeginKey(buy_orders))
           ss == CleanupSide(sell_orders, total_sell_orders_at_price,
                             best_sell_order, BeginKey(sell_orders))
       IN  /\ buy_orders' = bs.orders
           /\ total_buy_orders_at_price' = bs.totals
           /\ sell_orders' = ss.orders
           /\ total_sell_orders_at_price' = ss.totals
    /\ pc' = "print"
    /\ best_buy_order' = NoOrder
    /\ best_sell_order' = NoOrder
    /\ trade_quantity' = 0
    /\ UNCHANGED <<timestamp, side, quantity, price, success, validation_result,
                   out, attempts>>
    /\ UNCHANGED alt_vars

\* lines 106-121; a failed assert aborts the program.
Cleanup ==
    /\ pc = "cleanup"
    /\ LET bs == CleanupSide(buy_orders, total_buy_orders_at_price,
                             best_buy_order, RBeginKey(buy_orders))
           ss == CleanupSide(sell_orders, total_sell_orders_at_price,
                             best_sell_order, BeginKey(sell_orders))
       IN  /\ buy_orders' = bs.orders
           /\ total_buy_orders_at_price' = bs.totals
           /\ IF bs.assert_ok
              THEN /\ sell_orders' = ss.orders
                   /\ total_sell_orders_at_price' = ss.totals
                   /\ pc' = IF ss.assert_ok THEN "match" ELSE "aborted"
              ELSE /\ UNCHANGED <<sell_orders, total_sell_orders_at_price>>
                   /\ pc' = "aborted"
    /\ best_buy_order' = NoOrder
    /\ best_sell_order' = NoOrder
    /\ trade_quantity' = 0
    /\ UNCHANGED <<timestamp, side, quantity, price, success, validation_result,
                   out, attempts>>
    /\ UNCHANGED alt_vars

(***************************************************************************)
(* OrderBook::print_order_book  (order_book.cpp:126-155).  A cell is       *)
(* recorded as the level it shows (aggregate quantity and displayed price)  *)
(* or as blank.                                                            *)
(***************************************************************************)
RECURSIVE Ascending(_)
Ascending(S) == IF S = {} THEN <<>> ELSE <<SetMin(S)>> \o Ascending(S \ {SetMin(S)})

\* Variant: the bid levels are walked from begin(), lowest price first.
Descending_ascending(S) == Ascending(S)

RECURSIVE Descending(_)
Descending(S) == IF S = {} THEN <<>> ELSE <<SetMax(S)>> \o Descending(S \ {SetMax(S)})

\* Number of characters of the decimal text of n >= 0.
RECURSIVE NumDigits(_)
NumDigits(n) == IF n < 10 THEN 1 ELSE 1 + NumDigits(n \div 10)

\* Number of characters format("{}", p * 1.0f / SCALE_FACTOR) writes.  For
\* p < 2^24 the shortest text that reads back as the same binary32 value is
\* p / 1000 in fixed notation without trailing zeros.
PriceTextLen(p) ==
    LET frac == p % SCALE_FACTOR
    IN  NumDigits(p \div SCALE_FACTOR)
          + (IF frac = 0 THEN 0
             ELSE IF frac % 100 = 0 THEN 2
             ELSE IF frac % 10 = 0 THEN 3
             ELSE 4)

\* cell.size() of line 140: quantity, '@', price.
CellSize(q, p) == NumDigits(q) + 1 + PriceTextLen(p)

\* string(COLUMN_WIDTH, ' ')  (line 139)
BlankCell == [blank |-> TRUE, quantity |-> 0, price |-> [m |-> 0, e |-> 0],
              fits |-> TRUE, pad_before |-> 0, pad_after |-> 0]

\* Variant: the padding goes in front of the text when align is false.
append_cell_flipped(totals, keys, it, align) ==
    IF it > Len(keys) THEN BlankCell
    ELSE LET size == CellSize(totals[keys[it]], keys[it])
             pad  == IF size <= COLUMN_WIDTH THEN COLUMN_WIDTH - size ELSE 0
         IN  [blank |-> FALSE, quantity |-> totals[keys[it]],
              price |-> DisplayedPrice(keys[it]),
              fits |-> size <= COLUMN_WIDTH,
              pad_before |-> IF align THEN 0 ELSE pad,
              pad_after |-> IF align THEN pad ELSE 0]

\* append_cell (lines 138-147): keys is the iteration order of the map, it
\* the position of the iterator in it.  A cell records the level it shows
\* (aggregate quantity and displayed price) and the number of spaces put
\* before and after its text.  When the text is longer than COLUMN_WIDTH
\* the unsigned pad of line 143 wraps around and line 144 throws
\* std::length_error: fits is FALSE.
append_cell(totals, keys, it, align) ==
    IF it > Len(keys) THEN BlankCell
    ELSE LET size == CellSize(totals[keys[it]], keys[it])
             pad  == IF size <= COLUMN_WIDTH THEN COLUMN_WIDTH - size ELSE 0
         IN  [blank |-> FALSE, quantity |-> totals[keys[it]],
              price |-> DisplayedPrice(keys[it]),
              fits |-> size <= COLUMN_WIDTH,
              pad_before |-> IF align THEN pad ELSE 0,
              pad_after |-> IF align THEN 0 ELSE pad]

\* the loop of lines 135-153
RECURSIVE BookRows(_, _)
BookRows(itB, itS) ==
    LET bkeys == Descending(DOMAIN total_buy_orders_at_price)
        skeys == Ascending(DOMAIN total_sell_orders_at_price)
    IN  IF ~(itB <= Len(bkeys) \/ itS <= Len(skeys)) THEN <<>>
        ELSE <<[bid |-> append_cell(total_buy_orders_at_price, bkeys, itB, FALSE),
                ask |-> append_cell(total_sell_orders_at_price, skeys, itS, TRUE)]>>
             \o BookRows(Min2(itB, Len(bkeys)) + 1, Min2(itS, Len(skeys)) + 1)

\* The rows written before a cell that does not fit, or all of them.
RECURSIVE RowsWritten(_)
RowsWritten(rows) ==
    IF rows = <<>> \/ ~Head(rows).bid.fits \/ ~Head(rows).ask.fits THEN <<>>
    ELSE <<Head(rows)>> \o RowsWritten(Tail(rows))

\* Variant: walking the bid levels takes the best one out of the map.
PrintOrderBook_consuming ==
    /\ pc = "print"
    /\ out' = Append(out, [kind |-> "book", rows |-> BookRows(1, 1)])
    /\ pc' = "read"
    /\ total_buy_orders_at_price' =
          IF DOMAIN total_buy_orders_at_price = {} THEN total_buy_orders_at_price
          ELSE MapErase(total_buy_orders_at_price, RBeginKey(total_buy_orders_at_price))
    /\ UNCHANGED <<buy_orders, sell_orders, total_sell_orders_at_price, timestamp,
                   side, quantity, price, success, validation_result,
                   best_buy_order, best_sell_order, trade_quantity, attempts>>
    /\ UNCHANGED alt_vars

PrintOrderBook ==
    /\ pc = "print"
    /\ LET rows == BookRows(1, 1)
       IN  IF RowsWritten(rows) = rows
           THEN /\ out' = Append(out, [kind |-> "book", rows |-> rows])
                /\ pc' = "read"
           ELSE \* uncaught std::length_error: std::terminate
                /\ out' = Append(out, [kind |-> "book", rows |-> RowsWritten(rows)])
                /\ pc' = "terminated"
    /\ UNCHANGED <<buy_orders, sell_orders, total_buy_orders_at_price,
                   total_sell_orders_at_price, timestamp, side, quantity, price,
                   success, validation_result, best_buy_order, best_sell_order,
                   trade_quantity, attempts>>
    /\ UNCHANGED alt_vars

(***************************************************************************)
(* The program: main driving the order book.                               *)
(***************************************************************************)
Next ==
    \/ \E i \in MainInputs : Submit(i[1], i[2], i[3])
    \/ Eof
    \/ MatchEmpty
    \/ MatchBreak
    \/ MatchFill
    \/ Cleanup
    \/ PrintOrderBook

Spec == Init /\ [][Next]_vars

(***************************************************************************)
(* validate_inputs on its own: any triple of tokens, one application.      *)
(***************************************************************************)
InitValidate ==
    /\ buy_orders = EmptyMap
    /\ sell_orders = EmptyMap
    /\ total_buy_orders_at_price = EmptyMap
    /\ total_sell_orders_at_price = EmptyMap
    /\ timestamp = 0
    /\ side \in Sides
    /\ quantity \in QuantityTokens
    /\ price \in PriceTokens
    /\ success = FALSE
    /\ validation_result = "NONE"
    /\ best_buy_order = NoOrder
    /\ best_sell_order = NoOrder
    /\ trade_quantity = 0
    /\ out = <<>>
    /\ attempts = 0
    /\ pc = "validate"
    /\ AltInit

Validate ==
    /\ pc = "validate"
    /\ validation_result' = validate_inputs(side, quantity, price)
    /\ pc' = IF validation_result' = "OUT_OF_RANGE" THEN "terminated" ELSE "validated"
    /\ UNCHANGED <<buy_orders, sell_orders, total_buy_orders_at_price,
                   total_sell_orders_at_price, timestamp, side, quantity, price,
                   success, best_buy_order, best_sell_order, trade_quantity, out,
                   attempts>>
    /\ UNCHANGED alt_vars

NextValidate == Validate

SpecValidate == InitValidate /\ [][NextValidate]_vars

(***************************************************************************)
(* main fed the input of the README walkthrough (README.md:44-90), then    *)
(* at most MaxTail further submissions.                                    *)
(***************************************************************************)
MaxTail == 2

Walkthrough ==
    << <<"B", <<"4", "0">>, <<"1", "0">> >>,
       <<"B", <<"1", "0">>, <<"1", "0">> >>,
       <<"B", <<"5", "0">>, <<"1", "0", ".", "2", "3", "4", "5">> >>,
       <<"S", <<"5", "0">>, <<"1", "1">> >>,
       <<"S", <<"3", "0">>, <<"1", "0", ".", "2", "2", "2", "2">> >>,
       <<"N", <<"6", "5">>, <<"9", ".", "8">> >>,
       <<"S", <<"6", "5">>, <<"9", ".", "8">> >> >>

SubmitWalkthrough ==
    /\ attempts < Len(Walkthrough)
    /\ LET i == Walkthrough[attempts + 1]
       IN  ReadAndAdd(i[1], i[2], i[3])
    /\ UNCHANGED alt_vars

SubmitTail(s, q, p) ==
    /\ attempts >= Len(Walkthrough)
    /\ attempts < Len(Walkthrough) + MaxTail
    /\ ReadAndAdd(s, q, p)
    /\ UNCHANGED alt_vars

NextWalkthrough ==
    \/ SubmitWalkthrough
    \/ \E i \in MainInputs : SubmitTail(i[1], i[2], i[3])
    \/ Eof
    \/ MatchEmpty
    \/ MatchBreak
    \/ MatchFill
    \/ Cleanup
    \/ PrintOrderBook

SpecWalkthrough == Init /\ [][NextWalkthrough]_vars

(***************************************************************************)
(* add_order on its own: a caller that adds up to MaxAdds orders to an     *)
(* empty book and never matches  (order_book.hpp: add_order is public).    *)
(* The inputs vary one field over all its tokens at a time.                *)
(***************************************************************************)
MaxAdds == 2

AddInputs ==
    (Sides \X {<<"1">>} \X {<<"9", ".", "8">>})
        \cup (AcceptedSides \X QuantityTokens \X {<<"9", ".", "8">>, <<"0">>})
        \cup (AcceptedSides \X {<<"2">>} \X PriceTokens)

\* The caller calls add_order(s, q, p, ++timestamp) and nothing else.
AddOrderCall(s, q, p) ==
    /\ pc = "read"
    /\ attempts' = attempts + 1
    /\ side' = s
    /\ quantity' = q
    /\ price' = p
    /\ timestamp' = NextTimestamp(timestamp)
    /\ LET r == add_order(s, q, p, NextTimestamp(timestamp))
       IN  /\ validation_result' = r.validation_result
           /\ buy_orders' = r.maps.buy_orders
           /\ sell_orders' = r.maps.sell_orders
           /\ total_buy_orders_at_price' = r.maps.total_buy_orders_at_price
           /\ total_sell_orders_at_price' = r.maps.total_sell_orders_at_price
           /\ success' = IF r.returned THEN r.success ELSE success
           /\ out' = r.printed
           /\ pc' = IF r.returned THEN "read" ELSE "terminated"
    /\ UNCHANGED <<best_buy_order, best_sell_order, trade_quantity>>

CallAddOrder(s, q, p) ==
    /\ attempts < MaxAdds
    /\ AddOrderCall(s, q, p)
    /\ UNCHANGED alt_vars

NextAdd == \E i \in AddInputs : CallAddOrder(i[1], i[2], i[3])

SpecAdd == Init /\ [][NextAdd]_vars

(***************************************************************************)
(* add_order and print_order_book called by a caller that never matches:   *)
(* up to MaxAdds orders are added and the book is printed up to MaxPrints  *)
(* times after each, in any order  (order_book.hpp: both are public).      *)
(***************************************************************************)
MaxPrints == 2

\* The caller calls print_order_book.
CallPrint ==
    /\ pc = "read"
    /\ Cardinality({i \in 1..Len(out) : out[i].kind = "book"}) < MaxPrints
    /\ pc' = "print"
    /\ UNCHANGED <<buy_orders, sell_orders, total_buy_orders_at_price,
                   total_sell_orders_at_price, timestamp, side, quantity, price,
                   success, validation_result, best_buy_order, best_sell_order,
                   trade_quantity, out, attempts>>
    /\ UNCHANGED alt_vars

NextDisplay ==
    \/ \E i \in DisplayInputs : CallAddOrder(i[1], i[2], i[3])
    \/ CallPrint
    \/ PrintOrderBook

SpecDisplay == Init /\ [][NextDisplay]_vars

(***************************************************************************)
(* The three public functions called in any order: the caller adds up to   *)
(* MaxBatch orders, calls execute_and_print_trades whenever it likes, also *)
(* several times in a row, and prints the book after a matching pass.  The *)
(* book a matching pass starts from may be crossed at several levels.      *)
(*   pc = "read"   the caller is between calls                             *)
(*   pc = "print"  execute_and_print_trades has just returned              *)
(***************************************************************************)
MaxBatch == 3

\* add_order called while fewer than MaxBatch calls have been made.
BatchAdd(s, q, p) ==
    /\ attempts < MaxBatch
    /\ AddOrderCall(s, q, p)
    /\ UNCHANGED alt_vars

\* The caller calls execute_and_print_trades.
CallExecute ==
    /\ pc = "read"
    /\ Cardinality({i \in 1..Len(out) : out[i].kind = "book"}) < MaxPrints
    /\ pc' = "match"
    /\ UNCHANGED <<buy_orders, sell_orders, total_buy_orders_at_price,
                   total_sell_orders_at_price, timestamp, side, quantity, price,
                   success, validation_result, best_buy_order, best_sell_order,
                   trade_quantity, out, attempts>>
    /\ UNCHANGED alt_vars

\* The caller calls execute_and_print_trades again as soon as it has
\* returned.
ExecuteAgain ==
    /\ pc = "print"
    /\ pc' = "match"
    /\ UNCHANGED <<buy_orders, sell_orders, total_buy_orders_at_price,
                   total_sell_orders_at_price, timestamp, side, quantity, price,
                   success, validation_result, best_buy_order, best_sell_order,
                   trade_quantity, out, attempts>>
    /\ UNCHANGED alt_vars

NextCalls ==
    \/ \E i \in MainInputs : BatchAdd(i[1], i[2], i[3])
    \/ CallExecute
    \/ ExecuteAgain
    \/ MatchEmpty
    \/ MatchBreak
    \/ MatchFill
    \/ Cleanup
    \/ PrintOrderBook

SpecCalls == Init /\ [][NextCalls]_vars

\* The loop of execute_and_print_trades is not suspended for ever: a
\* matching pass that has been entered keeps taking steps.
MatchingPass == MatchEmpty \/ MatchBreak \/ MatchFill \/ Cleanup

SpecCallsFair == SpecCalls /\ WF_vars(MatchingPass)

(***************************************************************************)
(* The heap-based program  (src/unnamed/part_001; src/main.cpp is the same *)
(* program without validate_inputs).  Its orders keep their price as a     *)
(* binary32 value.                                                         *)
(***************************************************************************)
\* float PRECISION = 0.001f  (part_001:16)
PRECISION == NearestFloat(1, 1000)

\* int scale_factor = ceil(1 / PRECISION)  (part_001:146): the binary32
\* quotient 1 / 0.001f is 999.99994, its ceiling 1000.
scale_factor == 1000

\* abs(f - g) < t for binary32 values f, g >= t > 0.  The difference of two
\* values whose exponents differ by at most one is compared exactly (it is
\* either exact in binary32 or at least as large as the smaller value);
\* values further apart differ by more than the smaller one.
FloatAbsDiffLess(f, g, t) ==
    LET e == Min2(f.e, g.e)
        d == (f.e - e) + (g.e - e)
        D == IF f.e >= g.e THEN f.m * Pow2(f.e - e) - g.m
                           ELSE g.m * Pow2(g.e - e) - f.m
        A == IF D < 0 THEN -D ELSE D
    IN  IF d >= 2 THEN FALSE
        ELSE IF e - t.e > 30 THEN A = 0
        ELSE A <= (t.m - 1) \div Pow2(e - t.e)

\* The binary32 values of the prices of the model.
ModelFloats == {NearestFloat(p, 1000) : p \in ModelPrices \ {0}}

\* abs(a->price - b->price) < PRECISION
ClosePrices(f, g) == FloatAbsDiffLess(f, g, PRECISION)

\* CompareBuyOrders and CompareSellOrders (part_001:27-42) on the objects a
\* and b point to.
CompareBuyOrders(a, b) ==
    IF ClosePrices(a.price, b.price) THEN a.timestamp > b.timestamp
    ELSE FloatLess(a.price, b.price)

CompareSellOrders(a, b) ==
    IF ClosePrices(a.price, b.price) THEN a.timestamp > b.timestamp
    ELSE FloatLess(b.price, a.price)

\* The variables of the map-based program, and main's input variables,
\* which the two programs read alike.
map_vars == <<buy_orders, sell_orders, total_buy_orders_at_price,
              total_sell_orders_at_price, timestamp, success, validation_result,
              best_buy_order, best_sell_order, trade_quantity, out, pc>>

input_vars == <<side, quantity, price, attempts>>

\* validate_inputs  (part_001:103-111): the value returned, or
\* "OUT_OF_RANGE" when std::stof throws.
alt_validate_inputs(s, q, p) ==
    IF s # "B" /\ s # "S" THEN "INVALID_SIDE"
    ELSE IF ~QuantityRegexMatch(q) THEN "INVALID_QUANTITY"
    ELSE IF ~PriceRegexMatch(p) THEN "INVALID_PRICE"
    ELSE IF stof(p).kind = "out_of_range" THEN "OUT_OF_RANGE"
    ELSE IF FloatLess(stof(p), PRECISION) THEN "INVALID_PRICE"
    ELSE "VALID"

\* lines 145-148: the price truncated to three decimals, as a binary32
\* value.  price * scale_factor is the binary32 product; the double
\* quotient scaled / scale_factor, stored in a float, is the binary32
\* value nearest to scaled / 1000.
TruncatedPrice(price_str) ==
    LET scaled == FloatToLong(FloatTimesScale(stof(price_str)))
    IN  IF scaled = 0 THEN [m |-> 0, e |-> 0] ELSE NearestFloat(scaled, scale_factor)

\* std::stoi (line 150) of a token the quantity regex accepts; the
\* quantities of the model are far below INT_MAX.
stoi(quantity_str) == DecimalValue(quantity_str)

TruncatedPriceTable ==
    [tok \in {t \in DOMAIN StofTable : StofTable[t].kind = "float"} |-> TruncatedPrice(tok)]

\* The thousandths a binary32 price of the model stands for.
FloatPriceTable ==
    [f \in ModelFloats |-> CHOOSE p \in ModelPrices \ {0} : NearestFloat(p, 1000) = f]

\* priority_queue::top() of a non-empty queue Q of pointers into mem: the
\* element no other element is greater than.  (The comparators order the
\* orders of the model totally, so it does not depend on the heap layout.)
Compare(s, a, b) ==
    IF s = "B" THEN CompareBuyOrders(a, b) ELSE CompareSellOrders(a, b)

Top(Q, mem, s) ==
    CHOOSE x \in Q : \A y \in Q \ {x} : ~Compare(s, mem[x], mem[y])

\* The elements of a set from rbegin() to rend().
RECURSIVE ReverseSet(_, _, _)
ReverseSet(S, mem, s) ==
    IF S = {} THEN <<>>
    ELSE LET x == Top(S, mem, s)
         IN  <<x>> \o ReverseSet(S \ {x}, mem, s)

\* main, one pass of the loop up to the return of add_order
\* (part_001:234-239) with add_order (part_001:128-158).  The new object
\* is given the address t, the value of the counter.
AltReadAndAdd(s, q, p) ==
    /\ alt_pc = "read"
    /\ alt_timestamp' = alt_timestamp + 1
    /\ UNCHANGED <<alt_best_buy_order, alt_best_sell_order>>
    /\ LET result == alt_validate_inputs(s, q, p)
           t      == alt_timestamp + 1
       IN  IF result = "OUT_OF_RANGE"
           THEN \* uncaught std::out_of_range: std::terminate
                /\ alt_pc' = "terminated"
                /\ alt_out' = <<>>
                /\ UNCHANGED <<buy_order_queue, sell_order_queue, buy_order_set,
                               sell_order_set, allocated, alt_success>>
           ELSE IF result # "VALID"
           THEN /\ alt_pc' = "read"
                /\ alt_success' = FALSE
                /\ alt_out' = << [kind |-> "error", text |-> input_validation_message(result)],
                                 [kind |-> "prompt", text |-> "Ignoring input. Please re-enter:"] >>
                /\ UNCHANGED <<buy_order_queue, sell_order_queue, buy_order_set,
                               sell_order_set, allocated>>
           ELSE /\ alt_pc' = "match"
                /\ alt_success' = TRUE
                /\ alt_out' = <<>>
                /\ allocated' = MapPut(allocated, t,
                                       Order(s, stoi(q), TruncatedPriceTable[p], t))
                /\ IF s = "B"
                   THEN /\ buy_order_queue' = buy_order_queue \cup {t}
                        /\ buy_order_set' = buy_order_set \cup {t}
                        /\ UNCHANGED <<sell_order_queue, sell_order_set>>
                   ELSE /\ sell_order_queue' = sell_order_queue \cup {t}
                        /\ sell_order_set' = sell_order_set \cup {t}
                        /\ UNCHANGED <<buy_order_queue, buy_order_set>>

\* execute_and_print_trades  (part_001:160-193).
\*   alt_pc = "match"   at the loop condition, line 166
\*   alt_pc = "remove"  between line 180 and line 183
\* line 166: the loop condition is false.
AltMatchEmpty ==
    /\ alt_pc = "match"
    /\ buy_order_queue = {} \/ sell_order_queue = {}
    /\ alt_pc' = "print"
    /\ alt_best_buy_order' = NullPointer
    /\ alt_best_sell_order' = NullPointer
    /\ UNCHANGED <<buy_order_queue, sell_order_queue, buy_order_set, sell_order_set,
                   allocated, alt_timestamp, alt_success, alt_out>>
    /\ UNCHANGED <<map_vars, input_vars>>

\* line 169: break.
AltMatchBreak ==
    /\ alt_pc = "match"
    /\ buy_order_queue # {} /\ sell_order_queue # {}
    /\ \E pb \in {Top(buy_order_queue, allocated, "B")},
          pa \in {Top(sell_order_queue, allocated, "S")} :
          FloatLess(allocated[pb].price, allocated[pa].price)
    /\ alt_pc' = "print"
    /\ alt_best_buy_order' = NullPointer
    /\ alt_best_sell_order' = NullPointer
    /\ UNCHANGED <<buy_order_queue, sell_order_queue, buy_order_set, sell_order_set,
                   allocated, alt_timestamp, alt_success, alt_out>>
    /\ UNCHANGED <<map_vars, input_vars>>

\* lines 167-180: print the trade and take its quantity off both orders.
AltMatchFill ==
    /\ alt_pc = "match"
    /\ buy_order_queue # {} /\ sell_order_queue # {}
    /\ \E pb \in {Top(buy_order_queue, allocated, "B")},
          pa \in {Top(sell_order_queue, allocated, "S")} :
       LET b  == allocated[pb]
           a  == allocated[pa]
           tq == Min2(b.quantity, a.quantity)
           tp == IF b.timestamp > a.timestamp THEN a.price ELSE b.price
       IN  /\ ~FloatLess(b.price, a.price)
           /\ alt_best_buy_order' = pb
           /\ alt_best_sell_order' = pa
           /\ alt_out' = Append(alt_out, [kind |-> "trade", quantity |-> tq,
                                          price |-> PrintedTradePrice(FloatPriceTable[tp])])
           /\ allocated' = [allocated EXCEPT ![pb].quantity = @ - tq,
                                             ![pa].quantity = @ - tq]
    /\ alt_pc' = "remove"
    /\ UNCHANGED <<buy_order_queue, sell_order_queue, buy_order_set, sell_order_set,
                   alt_timestamp, alt_success>>
    /\ UNCHANGED <<map_vars, input_vars>>

\* remove_empty_order (lines 183-188) applied to the order pointer
\* points to, when its quantity is zero: the queue, the set and the memory
\* after pop, erase and delete, and the value line 187 assigns.  When the
\* queue has become empty, top() reads the first slot of the emptied
\* vector, which still holds the address just deleted.
RemoveEmptyOrder(pointer, order_queue, order_set, mem, s) ==
    IF mem[pointer].quantity # 0
    THEN [order |-> pointer, order_queue |-> order_queue, order_set |-> order_set,
          mem |-> mem, empty_top |-> FALSE]
    ELSE LET popped == order_queue \ {Top(order_queue, mem, s)}
             erased == order_set \ {pointer}
             freed  == MapErase(mem, pointer)
         IN  [order |-> IF popped # {} THEN Top(popped, freed, s) ELSE pointer,
              order_queue |-> popped, order_set |-> erased, mem |-> freed,
              empty_top |-> popped = {}]

\* lines 190-191.  Reading top() of an empty priority_queue is undefined:
\* a build with the library's assertions enabled aborts there, any other
\* build goes on with the stale address.
AltRemove ==
    /\ alt_pc = "remove"
    /\ \E assertions \in BOOLEAN :
       \E rb \in {RemoveEmptyOrder(alt_best_buy_order, buy_order_queue,
                                   buy_order_set, allocated, "B")} :
       \E rs \in {RemoveEmptyOrder(alt_best_sell_order, sell_order_queue,
                                   sell_order_set, rb.mem, "S")} :
              /\ alt_best_buy_order' = rb.order
              /\ buy_order_queue' = rb.order_queue
              /\ buy_order_set' = rb.order_set
              /\ IF assertions /\ rb.empty_top
                 THEN /\ allocated' = rb.mem
                      /\ UNCHANGED <<alt_best_sell_order, sell_order_queue, sell_order_set>>
                      /\ alt_pc' = "aborted"
                 ELSE /\ allocated' = rs.mem
                      /\ alt_best_sell_order' = rs.order
                      /\ sell_order_queue' = rs.order_queue
                      /\ sell_order_set' = rs.order_set
                      /\ alt_pc' = IF assertions /\ rs.empty_top THEN "aborted" ELSE "match"
    /\ UNCHANGED <<alt_timestamp, alt_success, alt_out>>
    /\ UNCHANGED <<map_vars, input_vars>>

\* get_next_entry (part_001:76-94) at position it of the iteration order
\* its: the cell of the orders that follow one another with the same
\* price, and the position after them.
RECURSIVE SamePriceRun(_, _, _)
SamePriceRun(its, it, last_order_price) ==
    IF it <= Len(its) /\ allocated[its[it]].price = last_order_price
    THEN SamePriceRun(its, it + 1, last_order_price)
    ELSE it

get_next_entry(its, it, align) ==
    LET last_order_price == allocated[its[it]].price
        next == SamePriceRun(its, it + 1, last_order_price)
        cum_order_size == SumSeq([i \in 1..(next - it) |-> allocated[its[it + i - 1]].quantity])
        size == CellSize(cum_order_size, FloatPriceTable[last_order_price])
        pad  == IF size <= COLUMN_WIDTH THEN COLUMN_WIDTH - size ELSE 0
    IN  [cell |-> [blank |-> FALSE, quantity |-> cum_order_size,
                   price |-> last_order_price, fits |-> size <= COLUMN_WIDTH,
                   pad_before |-> IF align THEN pad ELSE 0,
                   pad_after |-> IF align THEN 0 ELSE pad],
         next |-> next]

\* append_cell (part_001:209-214) at position it of the iteration order its.
alt_append_cell(its, it, align) ==
    IF it > Len(its) THEN [cell |-> BlankCell, next |-> it]
    ELSE get_next_entry(its, it, align)

\* the loop of part_001:206-220 over the buy set and the sell set, each
\* from rbegin() to rend()
RECURSIVE AltBookRows(_, _, _, _)
AltBookRows(bits, sits, itB, itS) ==
    IF itB > Len(bits) /\ itS > Len(sits) THEN <<>>
    ELSE <<[bid |-> alt_append_cell(bits, itB, FALSE).cell,
            ask |-> alt_append_cell(sits, itS, TRUE).cell]>>
             \o AltBookRows(bits, sits, alt_append_cell(bits, itB, FALSE).next,
                                        alt_append_cell(sits, itS, TRUE).next)

\* print_order_book  (part_001:195-221)
AltPrintOrderBook ==
    /\ alt_pc = "print"
    /\ \E rows \in {AltBookRows(ReverseSet(buy_order_set, allocated, "B"),
                                  ReverseSet(sell_order_set, allocated, "S"), 1, 1)} :
           IF RowsWritten(rows) = rows
           THEN /\ alt_out' = Append(alt_out, [kind |-> "book", rows |-> rows])
                /\ alt_pc' = "read"
           ELSE \* uncaught std::length_error: std::terminate
                /\ alt_out' = Append(alt_out, [kind |-> "book", rows |-> RowsWritten(rows)])
                /\ alt_pc' = "terminated"
    /\ UNCHANGED <<buy_order_queue, sell_order_queue, buy_order_set, sell_order_set,
                   allocated, alt_timestamp, alt_success, alt_best_buy_order,
                   alt_best_sell_order>>
    /\ UNCHANGED <<map_vars, input_vars>>

\* cin reaches the end of the input.
AltEof ==
    /\ alt_pc = "read"
    /\ alt_pc' = "done"
    /\ UNCHANGED <<buy_order_queue, sell_order_queue, buy_order_set, sell_order_set,
                   allocated, alt_timestamp, alt_success, alt_best_buy_order,
                   alt_best_sell_order, alt_out>>
    /\ UNCHANGED <<map_vars, input_vars>>

(***************************************************************************)
(* The heap-based program on its own, fed up to MaxAltSubmissions          *)
(* submissions.                                                            *)
(***************************************************************************)
MaxAltSubmissions == 3

\* Prices one tick apart at 1000, where binary32 values are 0.000061 apart.
AltPrices ==
    { <<"9", ".", "8">>, <<"1", "0", "0", "0">>,
      <<"1", "0", "0", "0", ".", "0", "0", "1">> }

AltInputs ==
    (AcceptedSides \X AcceptedQuantities \X AltPrices)
        \cup RejectedInputs \cup OutOfRangeInputs

AltSubmit(s, q, p) ==
    /\ attempts < MaxAltSubmissions
    /\ attempts' = attempts + 1
    /\ side' = s
    /\ quantity' = q
    /\ price' = p
    /\ AltReadAndAdd(s, q, p)
    /\ UNCHANGED map_vars

NextAlt ==
    \/ \E i \in AltInputs : AltSubmit(i[1], i[2], i[3])
    \/ AltEof
    \/ AltMatchEmpty
    \/ AltMatchBreak
    \/ AltMatchFill
    \/ AltRemove
    \/ AltPrintOrderBook

SpecAlt == Init /\ [][NextAlt]_vars

(***************************************************************************)
(* The two programs fed the same input: each submission is read by both,   *)
(* and each then runs its own matching pass and prints its own snapshot.   *)
(***************************************************************************)
MaxBoth == 3

SubmitBoth(s, q, p) ==
    /\ attempts < MaxBoth
    /\ ReadAndAdd(s, q, p)
    /\ AltReadAndAdd(s, q, p)

NextBoth ==
    \/ \E i \in AltInputs : SubmitBoth(i[1], i[2], i[3])
    \/ MatchEmpty
    \/ MatchBreak
    \/ MatchFill
    \/ Cleanup
    \/ PrintOrderBook
    \/ AltMatchEmpty
    \/ AltMatchBreak
    \/ AltMatchFill
    \/ AltRemove
    \/ AltPrintOrderBook

SpecBoth == Init /\ [][NextBoth]_vars

(***************************************************************************)
(* Vocabulary of the properties.                                           *)
(***************************************************************************)
Quantities(q) == [i \in 1..Len(q) |-> q[i].quantity]

\* Sum of the remaining quantities resting at price p of one side.
LevelQuantity(m, p) == IF p \in DOMAIN m THEN SumSeq(Quantities(m[p])) ELSE 0

RECURSIVE SumLevels(_, _)
SumLevels(m, S) ==
    IF S = {} THEN 0
    ELSE LET p == CHOOSE x \in S : TRUE
         IN  LevelQuantity(m, p) + SumLevels(m, S \ {p})

\* Sum of the remaining quantities of one side.
SideQuantity(m) == SumLevels(m, DOMAIN m)

\* The resting orders of one side, as a set.
RestingOrders(m) == UNION {{m[p][i] : i \in 1..Len(m[p])} : p \in DOMAIN m}

NumResting(m) == SumSeq([i \in 1..Cardinality(DOMAIN m) |->
                            Len(m[Ascending(DOMAIN m)[i]])])

Uncrossed ==
    \/ DOMAIN buy_orders = {}
    \/ DOMAIN sell_orders = {}
    \/ SetMax(DOMAIN buy_orders) < SetMin(DOMAIN sell_orders)

\* The step is one pass of lines 81-104: a trade line is written.
TradeStep ==
    /\ Len(out') = Len(out) + 1
    /\ out'[Len(out')].kind = "trade"

Trades == {i \in 1..Len(out) : out[i].kind = "trade"}

Snapshots == {i \in 1..Len(out) : out[i].kind = "book"}

Errors == {i \in 1..Len(out) : out[i].kind = "error"}

\* The step is one pass of the main loop's read and add_order call.
SubmitStep == attempts' = attempts + 1

(***************************************************************************)
(* C1.  After execute_and_print_trades has returned the book is uncrossed: *)
(* a side is empty or the highest bid price is strictly below the lowest   *)
(* ask price; and in no snapshot the main loop prints is a bid level shown *)
(* at a price that is not strictly below the price of every ask level      *)
(* shown.                                                                  *)
(***************************************************************************)
C1_UncrossedAfterMatching ==
    /\ pc \in {"print", "read", "done"} => Uncrossed
    /\ \A i \in Snapshots :
         \A r1, r2 \in 1..Len(out[i].rows) :
            (~out[i].rows[r1].bid.blank /\ ~out[i].rows[r2].ask.blank)
               => FloatLess(out[i].rows[r1].bid.price, out[i].rows[r2].ask.price)

\* A submission traded and left both sides populated, and the snapshot of
\* that book has been printed.
C1_Witness ==
    /\ pc = "read"
    /\ Trades # {}
    /\ Snapshots # {}
    /\ DOMAIN buy_orders # {}
    /\ DOMAIN sell_orders # {}

(***************************************************************************)
(* C2.  Price priority: whenever the remaining quantity resting at a price *)
(* level goes down, that level is the highest bid level (the lowest ask    *)
(* level) of the book at that moment; and every trade takes quantity from  *)
(* the highest bid level and from the lowest ask level.                    *)
(***************************************************************************)
C2_PricePriority ==
    [][ /\ \A p \in DOMAIN buy_orders :
              LevelQuantity(buy_orders', p) < LevelQuantity(buy_orders, p)
                 => \A k \in DOMAIN buy_orders : k <= p
        /\ \A p \in DOMAIN sell_orders :
              LevelQuantity(sell_orders', p) < LevelQuantity(sell_orders, p)
                 => \A k \in DOMAIN sell_orders : p <= k
        /\ TradeStep =>
              /\ LevelQuantity(buy_orders', SetMax(DOMAIN buy_orders))
                    < LevelQuantity(buy_orders, SetMax(DOMAIN buy_orders))
              /\ LevelQuantity(sell_orders', SetMin(DOMAIN sell_orders))
                    < LevelQuantity(sell_orders, SetMin(DOMAIN sell_orders))
              /\ best_buy_order'.price = SetMax(DOMAIN buy_orders)
              /\ best_sell_order'.price = SetMin(DOMAIN sell_orders)
      ]_vars

\* A trade has just been made while each side held two price levels.
C2_Witness ==
    /\ pc = "cleanup"
    /\ trade_quantity >= 1
    /\ Cardinality(DOMAIN buy_orders) >= 2
    /\ Cardinality(DOMAIN sell_orders) >= 2

(***************************************************************************)
(* C3.  Time priority: the orders of a level are queued by strictly        *)
(* increasing sequence number; in every step a level's queue is left as it *)
(* is, or its front order alone loses quantity and stays in front, or its  *)
(* front order, completely filled, is removed, or a new order with a       *)
(* larger sequence number than all of the queue is put at its tail.        *)
(***************************************************************************)
QueueSorted(q) == \A i, j \in 1..Len(q) : i < j => q[i].timestamp < q[j].timestamp

QueueStep(q, q2) ==
    \/ q2 = q
    \/ /\ q # <<>>
       /\ Len(q2) = Len(q)
       /\ Tail(q2) = Tail(q)
       /\ q2[1] = [q[1] EXCEPT !.quantity = q2[1].quantity]
       /\ q2[1].quantity < q[1].quantity
       /\ q2[1].quantity >= 0
    \/ /\ q # <<>>
       /\ q[1].quantity = 0
       /\ q2 = Tail(q)
    \/ /\ Len(q2) = Len(q) + 1
       /\ SubSeq(q2, 1, Len(q)) = q
       /\ \A i \in 1..Len(q) : q[i].timestamp < q2[Len(q2)].timestamp

SideTimePriority(m, m2) ==
    /\ \A p \in DOMAIN m \cup DOMAIN m2 : QueueStep(MapAt(m, p, <<>>), MapAt(m2, p, <<>>))
    /\ \A p \in DOMAIN m2 : QueueSorted(m2[p])

C3_TimePriority ==
    [][ /\ SideTimePriority(buy_orders, buy_orders')
        /\ SideTimePriority(sell_orders, sell_orders') ]_vars

\* The front order of a bid level has just been filled in part while a
\* later order waits behind it at the same price.
C3_Witness ==
    /\ pc = "cleanup"
    /\ best_buy_order.quantity > 0
    /\ \E p \in DOMAIN buy_orders :
          /\ p = best_buy_order.price
          /\ Len(buy_orders[p]) >= 2
          /\ buy_orders[p][1].timestamp = best_buy_order.timestamp

(***************************************************************************)
(* C4.  Trade pricing: the price printed for a trade between the best bid  *)
(* b and the best ask a is a's price when b's sequence number is strictly  *)
(* greater than a's and b's price otherwise, and so lies between the ask   *)
(* price and the bid price.                                                *)
(***************************************************************************)
C4_TradePricing ==
    [][ TradeStep =>
          LET b  == Head(buy_orders[SetMax(DOMAIN buy_orders)])
              a  == Head(sell_orders[SetMin(DOMAIN sell_orders)])
              tp == out'[Len(out')].price
          IN  /\ b.timestamp > a.timestamp => tp = a.price
              /\ ~(b.timestamp > a.timestamp) => tp = b.price
              /\ a.price <= tp
              /\ tp <= b.price
      ]_vars

(***************************************************************************)
(* C5.  Quantity conservation: a trade's quantity is the smaller of the    *)
(* remaining quantities of the two front orders and is at least 1; the     *)
(* trade takes exactly that quantity from the bid side and from the ask    *)
(* side, 2 x that quantity from the book, and from the two front orders    *)
(* only; no other step of a matching pass changes a remaining quantity.    *)
(***************************************************************************)
C5_QuantityConservation ==
    [][ /\ TradeStep =>
              LET kb == SetMax(DOMAIN buy_orders)
                  ka == SetMin(DOMAIN sell_orders)
                  b  == Head(buy_orders[kb])
                  a  == Head(sell_orders[ka])
                  tq == out'[Len(out')].quantity
              IN  /\ tq = IF b.quantity <= a.quantity THEN b.quantity ELSE a.quantity
                  /\ tq >= 1
                  /\ SideQuantity(buy_orders') = SideQuantity(buy_orders) - tq
                  /\ SideQuantity(sell_orders') = SideQuantity(sell_orders) - tq
                  /\ SideQuantity(buy_orders') + SideQuantity(sell_orders')
                        = SideQuantity(buy_orders) + SideQuantity(sell_orders) - 2 * tq
                  /\ DOMAIN buy_orders' = DOMAIN buy_orders
                  /\ DOMAIN sell_orders' = DOMAIN sell_orders
                  /\ \A p \in DOMAIN buy_orders \ {kb} : buy_orders'[p] = buy_orders[p]
                  /\ \A p \in DOMAIN sell_orders \ {ka} : sell_orders'[p] = sell_orders[p]
                  /\ Tail(buy_orders'[kb]) = Tail(buy_orders[kb])
                  /\ Tail(sell_orders'[ka]) = Tail(sell_orders[ka])
                  /\ buy_orders'[kb][1] = [b EXCEPT !.quantity = b.quantity - tq]
                  /\ sell_orders'[ka][1] = [a EXCEPT !.quantity = a.quantity - tq]
        /\ (~TradeStep /\ ~SubmitStep) =>
              /\ SideQuantity(buy_orders') = SideQuantity(buy_orders)
              /\ SideQuantity(sell_orders') = SideQuantity(sell_orders)
      ]_vars

\* A trade of quantity 1 has just been taken from a bid of 1 and an ask of
\* 2, with other orders resting on the bid side.
C5_Witness ==
    /\ pc = "cleanup"
    /\ trade_quantity = 1
    /\ best_buy_order.quantity = 0
    /\ best_sell_order.quantity = 1
    /\ NumResting(buy_orders) >= 2

(***************************************************************************)
(* C6.  Level aggregates: whenever add_order or execute_and_print_trades   *)
(* has completed, on each side the queue map and the aggregate map have    *)
(* the same keys, every aggregate is the sum of the remaining quantities   *)
(* in the queue of its price, no queue is empty and no aggregate is zero;  *)
(* and neither assertion of the matching loop fails.                       *)
(***************************************************************************)
LevelsConsistent(orders, totals) ==
    /\ DOMAIN orders = DOMAIN totals
    /\ \A p \in DOMAIN orders :
          /\ orders[p] # <<>>
          /\ totals[p] = LevelQuantity(orders, p)
          /\ totals[p] # 0

C6_LevelAggregates ==
    /\ pc # "aborted"
    /\ pc \in {"match", "print", "read", "done"} =>
          /\ LevelsConsistent(buy_orders, total_buy_orders_at_price)
          /\ LevelsConsistent(sell_orders, total_sell_orders_at_price)

\* A pass of the loop has brought the only bid level to zero and erased it
\* while orders remain on the ask side.
C6_Witness ==
    /\ pc = "match"
    /\ Trades # {}
    /\ DOMAIN buy_orders = {}
    /\ DOMAIN sell_orders # {}
    /\ \E p \in DOMAIN sell_orders : Len(sell_orders[p]) >= 2

(***************************************************************************)
(* C7.  No negative fill: no remaining quantity is ever negative; an order *)
(* brought to zero is gone from its level when the loop iteration that     *)
(* zeroed it ends; outside that iteration every resting order has a        *)
(* remaining quantity of at least 1.                                       *)
(***************************************************************************)
C7_NoNegativeFill ==
    /\ \A o \in RestingOrders(buy_orders) \cup RestingOrders(sell_orders) :
          o.quantity >= 0
    /\ best_buy_order.quantity >= 0
    /\ best_sell_order.quantity >= 0
    /\ pc # "cleanup" =>
          \A o \in RestingOrders(buy_orders) \cup RestingOrders(sell_orders) :
             o.quantity >= 1

\* An iteration has just removed a completely filled bid from a level
\* that still holds a later order.
C7_Witness ==
    /\ pc = "match"
    /\ Trades # {}
    /\ \E p \in DOMAIN buy_orders :
          /\ buy_orders[p][1].timestamp > 1
          /\ total_buy_orders_at_price[p] = 1
    /\ DOMAIN sell_orders = {}

(***************************************************************************)
(* What the specification accepts: side B or S, a quantity of one non-zero *)
(* digit followed by digits, a price of digits with at most one decimal    *)
(* point whose decimal value is at least 0.001.                            *)
(***************************************************************************)
SpecQuantityValid(tok) ==
    /\ tok # <<>>
    /\ \A i \in 1..Len(tok) : tok[i] \in Digits
    /\ tok[1] # "0"

\* The decimal value is at least one tick: a non-zero digit before the
\* point or among the first three digits after it.
AtLeastOneTick(tok) ==
    \/ \E i \in 1..Len(IntDigits(tok)) : IntDigits(tok)[i] # "0"
    \/ \E i \in 1..Min2(3, Len(FracDigits(tok))) : FracDigits(tok)[i] # "0"

SpecPriceValid(tok) == PriceRegexMatch(tok) /\ AtLeastOneTick(tok)

ExpectedResult(s, q, p) ==
    IF s \notin {"B", "S"} THEN "INVALID_SIDE"
    ELSE IF ~SpecQuantityValid(q) THEN "INVALID_QUANTITY"
    ELSE IF ~SpecPriceValid(p) THEN "INVALID_PRICE"
    ELSE "VALID"

AllResting == RestingOrders(buy_orders) \cup RestingOrders(sell_orders)

C9_SequenceAssignment ==
    [][ /\ SubmitStep =>
              /\ timestamp' = attempts'
              /\ pc' = "match" =>
                    /\ \E o \in AllResting' \ AllResting : o.timestamp = attempts'
                    /\ \A o \in AllResting : o.timestamp < attempts'
              /\ pc' = "read" =>
                    /\ AllResting' = AllResting
                    /\ \A o \in AllResting' : o.timestamp # attempts'
        /\ \A o1, o2 \in AllResting' : o1.timestamp = o2.timestamp => o1 = o2
        /\ NumResting(buy_orders') + NumResting(sell_orders') = Cardinality(AllResting')
        /\ \A o \in AllResting' : o.timestamp \in 1..attempts'
      ]_vars

\* A submission has been accepted right after a rejected one: the orders
\* in the book skip the rejected submission's number.
C9_Witness ==
    /\ pc = "match"
    /\ attempts = 3
    /\ \E o \in AllResting : o.timestamp = 1 /\ o.quantity = 2
    /\ \E o \in AllResting : o.timestamp = 3
    /\ \A o \in AllResting : o.timestamp # 2
    /\ Cardinality(AllResting) = 2
    /\ DOMAIN sell_orders = {}

(***************************************************************************)
(* C10.  Validation order: validate_inputs reports INVALID_SIDE when the   *)
(* side is neither B nor S, whatever the other fields; otherwise           *)
(* INVALID_QUANTITY when the quantity token is invalid, whatever the       *)
(* price; otherwise INVALID_PRICE when the price token is invalid;         *)
(* otherwise VALID; it reports exactly one of them for every triple.       *)
(***************************************************************************)
C10_ValidationOrder ==
    pc # "validate" =>
       /\ pc = "validated"
       /\ validation_result = ExpectedResult(side, quantity, price)

(***************************************************************************)
(* C11.  The resting order sets the price: every submission of the main    *)
(* loop finds the book uncrossed and is given a sequence number greater    *)
(* than that of every resting order; every trade of the matching pass that *)
(* follows has the just-submitted order as its bid or as its ask and is    *)
(* printed at the price of the other, resting order, which is the          *)
(* submitted order's own price only when the two prices are equal.         *)
(***************************************************************************)
C11_RestingSetsPrice ==
    [][ /\ SubmitStep =>
              /\ Uncrossed
              /\ \A o \in AllResting : o.timestamp < timestamp'
        /\ TradeStep =>
              LET b  == Head(buy_orders[SetMax(DOMAIN buy_orders)])
                  a  == Head(sell_orders[SetMin(DOMAIN sell_orders)])
                  tp == out'[Len(out')].price
              IN  /\ b.timestamp = timestamp \/ a.timestamp = timestamp
                  /\ b.timestamp = timestamp => tp = a.price
                  /\ a.timestamp = timestamp => tp = b.price
                  /\ b.price # a.price =>
                        /\ b.timestamp = timestamp => tp # b.price
                        /\ a.timestamp = timestamp => tp # a.price
      ]_vars

(***************************************************************************)
(* C12.  Totality: a submission with side B or S, a quantity of one        *)
(* non-zero digit followed by digits and a price of valid syntax and of    *)
(* value at least one tick goes through add_order, the matching pass and    *)
(* the snapshot without an exception and without an abort.                 *)
(***************************************************************************)
C12_Totality ==
    ExpectedResult(side, quantity, price) = "VALID"
       => pc \notin {"terminated", "aborted"}

(***************************************************************************)
(* C13.  Walkthrough: from an empty book, B 40 10, B 10 10, B 50 10.2345   *)
(* and S 50 11 print no trade and leave the bids 50@10.234 and 50@10 and   *)
(* the ask 50@11; S 30 10.2222 prints the single trade 30@10.234 and       *)
(* leaves the bids 20@10.234 and 50@10; N 65 9.8 prints the side error and *)
(* changes nothing; S 65 9.8 prints the trades 20@10.234, 40@10 and 5@10   *)
(* in that order and leaves the bid 5@10 and the ask 50@11.                *)
(***************************************************************************)
\* After the k-th submission has been dealt with: back at the read.
After(k) == attempts = k /\ pc = "read"

\* The lines `q@p` of a trade and of a cell, p in thousandths.
TradeLine(q, p) == [kind |-> "trade", quantity |-> q, price |-> p]

\* A bid cell is the text followed by n spaces, an ask cell n spaces
\* followed by the text, as the README prints them.
BidShown(q, p, n) ==
    [blank |-> FALSE, quantity |-> q, price |-> NearestFloat(p, 1000),
     fits |-> TRUE, pad_before |-> 0, pad_after |-> n]

AskShown(q, p, n) ==
    [blank |-> FALSE, quantity |-> q, price |-> NearestFloat(p, 1000),
     fits |-> TRUE, pad_before |-> n, pad_after |-> 0]

BookLines(rows) == [kind |-> "book", rows |-> rows]

C13_Walkthrough ==
    /\ attempts <= 4 => Trades = {}
    /\ After(4) =>
          /\ out = << BookLines(<< [bid |-> BidShown(50, 10234, 6), ask |-> AskShown(50, 11000, 10)],
                                   [bid |-> BidShown(50, 10000, 10), ask |-> BlankCell] >>) >>
          /\ total_buy_orders_at_price = (10234 :> 50) @@ (10000 :> 50)
          /\ total_sell_orders_at_price = (11000 :> 50)
    /\ After(5) =>
          /\ out = << TradeLine(30, 10234),
                      BookLines(<< [bid |-> BidShown(20, 10234, 6), ask |-> AskShown(50, 11000, 10)],
                                   [bid |-> BidShown(50, 10000, 10), ask |-> BlankCell] >>) >>
          /\ total_buy_orders_at_price = (10234 :> 20) @@ (10000 :> 50)
          /\ total_sell_orders_at_price = (11000 :> 50)
    /\ After(6) =>
          /\ success = FALSE
          /\ out = << [kind |-> "error", text |-> "Side should be either 'B' or 'S'"],
                      [kind |-> "prompt", text |-> "Ignoring input. Please re-enter:"] >>
          /\ buy_orders = (10234 :> << Order("B", 20, 10234, 3) >>)
                            @@ (10000 :> << Order("B", 40, 10000, 1),
                                            Order("B", 10, 10000, 2) >>)
          /\ sell_orders = (11000 :> << Order("S", 50, 11000, 4) >>)
          /\ total_buy_orders_at_price = (10234 :> 20) @@ (10000 :> 50)
          /\ total_sell_orders_at_price = (11000 :> 50)
    /\ After(7) =>
          /\ out = << TradeLine(20, 10234), TradeLine(40, 10000), TradeLine(5, 10000),
                      BookLines(<< [bid |-> BidShown(5, 10000, 11), ask |-> AskShown(50, 11000, 10)] >>) >>
          /\ buy_orders = (10000 :> << Order("B", 5, 10000, 2) >>)
          /\ sell_orders = (11000 :> << Order("S", 50, 11000, 4) >>)
          /\ total_buy_orders_at_price = (10000 :> 5)
          /\ total_sell_orders_at_price = (11000 :> 50)

\* The last submission of the walkthrough has been matched and the book
\* printed.
C13_Witness ==
    /\ After(7)
    /\ Cardinality(Trades) = 3
    /\ Cardinality(Snapshots) = 1

C15_PriceValidation ==
    [][ /\ (SubmitStep /\ side' \in {"B", "S"} /\ SpecQuantityValid(quantity')) =>
              /\ SpecPriceValid(price') =>
                    /\ validation_result' = "VALID"
                    /\ success' = TRUE
                    /\ pc' = "read"
              /\ ~SpecPriceValid(price') =>
                    /\ validation_result' = "INVALID_PRICE"
                    /\ success' = FALSE
                    /\ pc' = "read"
                    /\ UNCHANGED book
        /\ \A o \in AllResting' : o.price >= 1
      ]_vars

(***************************************************************************)
(* C16.  Price truncation: the order add_order stores for an accepted      *)
(* price token of decimal value v has the price floor(v x 1000), the       *)
(* digits after the third decimal being dropped; so two tokens accepted    *)
(* one after the other for the same side are stored at the same price      *)
(* exactly when their values agree in the integer part and the first three *)
(* decimals.                                                               *)
(***************************************************************************)
\* floor(v x 1000) read off the digits of the token: the integer part
\* followed by the first three decimals, missing decimals being zero.
TruncatedThousandths(tok) ==
    LET frac == FracDigits(tok) \o <<"0", "0", "0">>
    IN  1000 * DecimalValue(IntDigits(tok)) + DecimalValue(SubSeq(frac, 1, 3))

\* Of the orders S, the one stored by the call that was given sequence
\* number t.
StoredBy(S, t) == CHOOSE o \in S : o.timestamp = t

Accepted == validation_result = "VALID" /\ pc = "read"

C16_PriceTruncation ==
    [][ SubmitStep =>
          /\ Accepted' =>
                /\ \E o \in AllResting' : o.timestamp = timestamp'
                /\ StoredBy(AllResting', timestamp').price = TruncatedThousandths(price')
          /\ (Accepted /\ Accepted' /\ attempts >= 1 /\ side = side') =>
                (StoredBy(AllResting', timestamp).price = StoredBy(AllResting', timestamp').price
                    <=> TruncatedThousandths(price) = TruncatedThousandths(price'))
      ]_vars

(***************************************************************************)
(* C17.  Display rows: a snapshot has as many rows as the larger of the    *)
(* number of bid levels and the number of ask levels; row i shows on the   *)
(* left the i-th highest bid level and on the right the i-th lowest ask    *)
(* level, each with the sum of the quantities resting at the level and the *)
(* level's price; the cell of a side with fewer than i levels is blank;    *)
(* every level is shown in exactly one row.                                *)
(***************************************************************************)
\* The step is one call of print_order_book: a snapshot is written.
SnapshotStep ==
    /\ Len(out') = Len(out) + 1
    /\ out'[Len(out')].kind = "book"

NthHighest(S, i) == CHOOSE x \in S : Cardinality({y \in S : y > x}) = i - 1

NthLowest(S, i) == CHOOSE x \in S : Cardinality({y \in S : y < x}) = i - 1

\* The binary32 value the text of p thousandths denotes, for each price of
\* the model.
ThousandthsTable == [p \in ModelPrices \ {0} |-> NearestFloat(p, 1000)]

\* The cell c reads `aggregate@price` for the level at price p of the queue
\* map m.
ShowsLevel(c, m, p) ==
    /\ ~c.blank
    /\ c.quantity = LevelQuantity(m, p)
    /\ c.price = ThousandthsTable[p]

C17_DisplayRows ==
    [][ SnapshotStep =>
          LET rows == out'[Len(out')].rows
              nb   == Cardinality(DOMAIN buy_orders)
              ns   == Cardinality(DOMAIN sell_orders)
          IN  /\ Len(rows) = IF nb > ns THEN nb ELSE ns
              /\ \A i \in 1..Len(rows) :
                    /\ i <= nb => ShowsLevel(rows[i].bid, buy_orders,
                                             NthHighest(DOMAIN buy_orders, i))
                    /\ i > nb => rows[i].bid.blank
                    /\ i <= ns => ShowsLevel(rows[i].ask, sell_orders,
                                             NthLowest(DOMAIN sell_orders, i))
                    /\ i > ns => rows[i].ask.blank
              /\ \A p \in DOMAIN buy_orders :
                    Cardinality({i \in 1..Len(rows) :
                                   ShowsLevel(rows[i].bid, buy_orders, p)}) = 1
              /\ \A p \in DOMAIN sell_orders :
                    Cardinality({i \in 1..Len(rows) :
                                   ShowsLevel(rows[i].ask, sell_orders, p)}) = 1
      ]_vars

\* A snapshot of two bid levels, one of them holding two orders, and one
\* ask level has been printed: its second row has a blank ask cell.
C17_Witness ==
    /\ pc = "read"
    /\ Snapshots # {}
    /\ Cardinality(DOMAIN buy_orders) = 2
    /\ Cardinality(DOMAIN sell_orders) = 1
    /\ \E p \in DOMAIN buy_orders : Len(buy_orders[p]) = 2

(***************************************************************************)
(* C18.  Display alignment, as stated: in every row of a snapshot the      *)
(* padding of a populated bid cell comes before its text and the padding   *)
(* of a populated ask cell comes after its text.                           *)
(***************************************************************************)
\* The populated cells of the snapshots written since the last read.
BidCells ==
    { out[i].rows[r].bid : <<i, r>> \in
         { x \in Snapshots \X (1..COLUMN_WIDTH) : x[2] <= Len(out[x[1]].rows)
                                                    /\ ~out[x[1]].rows[x[2]].bid.blank } }

AskCells ==
    { out[i].rows[r].ask : <<i, r>> \in
         { x \in Snapshots \X (1..COLUMN_WIDTH) : x[2] <= Len(out[x[1]].rows)
                                                    /\ ~out[x[1]].rows[x[2]].ask.blank } }

C18_AlignmentAsStated ==
    /\ \A c \in BidCells : c.pad_before >= 1 /\ c.pad_after = 0
    /\ \A c \in AskCells : c.pad_after >= 1 /\ c.pad_before = 0

(***************************************************************************)
(* C18, amended.  In every row of a snapshot a populated bid cell is its   *)
(* text followed by its padding (left-aligned, the text away from the      *)
(* separator) and a populated ask cell is its padding followed by its text *)
(* (right-aligned); text and padding together fill COLUMN_WIDTH            *)
(* characters.                                                             *)
(***************************************************************************)
C18_Alignment ==
    /\ \A c \in BidCells : c.pad_before = 0 /\ c.pad_after >= 1
    /\ \A c \in AskCells : c.pad_after = 0 /\ c.pad_before >= 1

\* A snapshot with a populated bid cell and a populated ask cell has been
\* printed.
C18_Witness ==
    /\ pc = "read"
    /\ BidCells # {}
    /\ AskCells # {}

(***************************************************************************)
(* C19.  Display is pure and idempotent: a call of print_order_book leaves *)
(* the two queue maps and the two aggregate maps as they were, and the     *)
(* snapshots printed one after the other with no call of add_order in      *)
(* between are identical.                                                  *)
(***************************************************************************)
C19_DisplayPure ==
    [][ /\ (pc = "print" \/ pc' = "print") => UNCHANGED book
        /\ SnapshotStep =>
              /\ UNCHANGED book
              /\ \A i \in Snapshots' : out'[i] = out'[Len(out')]
      ]_vars

\* The book, with both sides populated, has been printed twice in a row.
C19_Witness ==
    /\ pc = "read"
    /\ Len(out) = 2
    /\ Cardinality(Snapshots) = 2
    /\ Len(out[1].rows) >= 1
    /\ DOMAIN buy_orders # {}
    /\ DOMAIN sell_orders # {}

(***************************************************************************)
(* C20.  Insertion frame: a successful add_order puts exactly one order,   *)
(* with the submitted side, the submitted quantity and the sequence number *)
(* of the call, at the tail of the queue of its price level on its side,   *)
(* the level being created when absent, and adds the quantity to that      *)
(* level's aggregate; the orders already in that queue, the other levels   *)
(* of the side and the whole opposite side stay as they were, and no trade *)
(* is printed, even when the new order crosses the book.                   *)
(***************************************************************************)
\* The queue map m and aggregate map t of one side become m2 and t2 by the
\* insertion of order o.
Inserted(m, t, m2, t2, o) ==
    /\ DOMAIN m2 = DOMAIN m \cup {o.price}
    /\ DOMAIN t2 = DOMAIN t \cup {o.price}
    /\ m2[o.price] = MapAt(m, o.price, <<>>) \o <<o>>
    /\ t2[o.price] = MapAt(t, o.price, 0) + o.quantity
    /\ \A k \in DOMAIN m \ {o.price} : m2[k] = m[k]
    /\ \A k \in DOMAIN t \ {o.price} : t2[k] = t[k]

C20_InsertionFrame ==
    [][ (SubmitStep /\ success' /\ pc' # "terminated") =>
          /\ \E o \in AllResting' :
                /\ o.side = side'
                /\ o.quantity = DecimalValue(quantity')
                /\ o.timestamp = timestamp'
                /\ IF side' = "B"
                   THEN /\ Inserted(buy_orders, total_buy_orders_at_price,
                                    buy_orders', total_buy_orders_at_price', o)
                        /\ UNCHANGED <<sell_orders, total_sell_orders_at_price>>
                   ELSE /\ Inserted(sell_orders, total_sell_orders_at_price,
                                    sell_orders', total_sell_orders_at_price', o)
                        /\ UNCHANGED <<buy_orders, total_buy_orders_at_price>>
          /\ out' = <<>>
          /\ UNCHANGED <<best_buy_order, best_sell_order, trade_quantity>>
      ]_vars

\* A bid has just been added at a new price level that crosses the resting
\* ask, beside a bid level that holds two orders: the book is crossed and
\* nothing has been matched yet.
C20_Witness ==
    /\ pc = "match"
    /\ side = "B"
    /\ ~Uncrossed
    /\ \E p \in DOMAIN buy_orders : Len(buy_orders[p]) = 2
    /\ \E p \in DOMAIN buy_orders :
          /\ Len(buy_orders[p]) = 1
          /\ buy_orders[p][1].timestamp = timestamp

(***************************************************************************)
(* C21.  Sweep amount: a submission of quantity Q and price P that enters  *)
(* the matching pass found the book uncrossed; every trade of the pass     *)
(* takes its quantity from the inserted order and from the front order of  *)
(* the best opposite level, which crosses or touches P; when the pass ends *)
(* the inserted order is gone or no opposite order crosses or touches P,   *)
(* and the quantity traded is the smaller of Q and L, the quantity of the  *)
(* opposite orders that crossed or touched P when the order was inserted.  *)
(***************************************************************************)
\* Sum of the quantities of the trade lines written since the last read.
TradedQuantity ==
    SumSeq([i \in 1..Len(out) |-> IF out[i].kind = "trade" THEN out[i].quantity ELSE 0])

\* Remaining quantity of the order inserted by the last submission.
InsertedRemaining ==
    LET S == {o \in AllResting : o.timestamp = timestamp}
    IN  IF S = {} THEN 0 ELSE (CHOOSE o \in S : TRUE).quantity

\* Remaining quantity of the orders opposite to side s that cross or touch
\* the price P.
CrossingQuantity(s, P, buys, sells) ==
    IF s = "B" THEN SumLevels(sells, {p \in DOMAIN sells : p <= P})
               ELSE SumLevels(buys, {p \in DOMAIN buys : p >= P})

CrossingRemaining == CrossingQuantity(side, ScaledPrice(price), buy_orders, sell_orders)

\* The best level of the side opposite to s.
BestOpposite(s, buys, sells) ==
    IF s = "B" THEN SetMin(DOMAIN sells) ELSE SetMax(DOMAIN buys)

OppositeMap(s, buys, sells) == IF s = "B" THEN sells ELSE buys

C21_SweepAmount ==
    [][ /\ (SubmitStep /\ pc' = "match") =>
              /\ Uncrossed
              /\ TradedQuantity' = 0
              /\ InsertedRemaining' = DecimalValue(quantity')
              /\ CrossingRemaining' =
                    CrossingQuantity(side', ScaledPrice(price'), buy_orders, sell_orders)
        /\ TradeStep =>
              LET tq   == out'[Len(out')].quantity
                  opp  == OppositeMap(side, buy_orders, sell_orders)
                  opp2 == OppositeMap(side, buy_orders', sell_orders')
                  best == BestOpposite(side, buy_orders, sell_orders)
              IN  /\ TradedQuantity' = TradedQuantity + tq
                  /\ InsertedRemaining' = InsertedRemaining - tq
                  /\ CrossingRemaining' = CrossingRemaining - tq
                  /\ opp2[best][1].quantity = opp[best][1].quantity - tq
                  /\ \A p \in DOMAIN opp \ {best} : opp2[p] = opp[p]
                  /\ IF side = "B" THEN best <= ScaledPrice(price)
                                   ELSE best >= ScaledPrice(price)
        /\ pc = "cleanup" =>
              /\ TradedQuantity' = TradedQuantity
              /\ InsertedRemaining' = InsertedRemaining
              /\ CrossingRemaining' = CrossingRemaining
        /\ (pc = "match" /\ pc' = "print") =>
              /\ InsertedRemaining = 0 \/ CrossingRemaining = 0
              /\ TradedQuantity = Min2(TradedQuantity + InsertedRemaining,
                                       TradedQuantity + CrossingRemaining)
      ]_vars

\* A bid of quantity 2 has swept two ask levels of quantity 1 each and is
\* gone, and an ask that does not cross it is left.
C21_Witness ==
    /\ pc = "print"
    /\ side = "B"
    /\ quantity = <<"2">>
    /\ Cardinality(Trades) = 2
    /\ InsertedRemaining = 0
    /\ DOMAIN buy_orders = {}
    /\ DOMAIN sell_orders # {}

(***************************************************************************)
(* C22.  Matching terminates: every iteration of the matching loop that    *)
(* prints a trade brings the bid, the ask or both to zero and removes the  *)
(* orders it brought to zero, one or two, from the book before the next    *)
(* iteration; an iteration that prints no trade leaves the loop; so the    *)
(* number of trades printed plus the number of resting orders never grows  *)
(* from one iteration to the next, a pass prints at most as many trades as *)
(* there were resting orders, and every call of execute_and_print_trades,  *)
(* from any book add_order can build, reaches its exit.                    *)
(***************************************************************************)
RestingCount == NumResting(buy_orders) + NumResting(sell_orders)

C22_MatchingTerminates ==
    /\ [][ /\ TradeStep =>
                 /\ best_buy_order'.quantity = 0 \/ best_sell_order'.quantity = 0
                 /\ Cardinality(Trades') = Cardinality(Trades) + 1
                 /\ RestingCount' = RestingCount
                 /\ pc' = "cleanup"
           /\ pc = "cleanup" =>
                 /\ RestingCount' =
                       RestingCount - (IF best_buy_order.quantity = 0 THEN 1 ELSE 0)
                                    - (IF best_sell_order.quantity = 0 THEN 1 ELSE 0)
                 /\ RestingCount' < RestingCount
                 /\ Trades' = Trades
                 /\ pc' = "match"
           /\ (pc = "match" /\ ~TradeStep) =>
                 /\ pc' = "print"
                 /\ UNCHANGED book
                 /\ out' = out
         ]_vars
    /\ [](pc \in {"match", "print", "read"} =>
             Cardinality(Trades) + RestingCount <= timestamp)
    /\ (pc = "match") ~> (pc = "print")

\* Three orders were added without matching in between, a bid of 2 between
\* two asks of 1, and one pass over the crossed book has printed two trades
\* and emptied it.
C22_Witness ==
    /\ pc = "print"
    /\ attempts = 3
    /\ side = "S"
    /\ quantity = <<"1">>
    /\ Cardinality(Trades) = 2
    /\ DOMAIN buy_orders = {}
    /\ DOMAIN sell_orders = {}

(***************************************************************************)
(* C23.  Re-running matching is a no-op: when execute_and_print_trades has *)
(* returned the book is uncrossed; calling it again at once changes        *)
(* nothing; and a pass entered on an uncrossed book, as every second call  *)
(* is, leaves the loop at its first test without printing a trade and      *)
(* without changing the two queue maps and the two aggregate maps.         *)
(***************************************************************************)
C23_RerunNoOp ==
    [][ /\ pc = "print" => Uncrossed
        /\ (pc = "print" /\ pc' = "match") =>
              /\ UNCHANGED book
              /\ out' = out
              /\ Uncrossed'
        /\ (pc = "match" /\ Uncrossed) =>
              /\ pc' = "print"
              /\ UNCHANGED book
              /\ out' = out
              /\ Trades' = Trades
      ]_vars

\* A pass has traded and left both sides populated, the book has been
\* printed, and execute_and_print_trades has been called once more with no
\* order added in between.
C23_Witness ==
    /\ pc = "match"
    /\ Trades # {}
    /\ Snapshots # {}
    /\ DOMAIN buy_orders # {}
    /\ DOMAIN sell_orders # {}

(***************************************************************************)
(* C24.  Fixed cell width: in every book the program reaches, the text     *)
(* `aggregate@price` of every level is at most COLUMN_WIDTH characters     *)
(* long, so that line 143 never computes the padding of a longer text;     *)
(* print_order_book never ends in an exception; and every cell it has      *)
(* written, text and padding together, is COLUMN_WIDTH characters wide.    *)
(***************************************************************************)
\* Number of characters of the text of the populated cell c.
CellTextLen(c) ==
    CellSize(c.quantity, CHOOSE p \in ModelPrices \ {0} : ThousandthsTable[p] = c.price)

CellWidth(c) ==
    IF c.blank THEN COLUMN_WIDTH ELSE c.pad_before + CellTextLen(c) + c.pad_after

LevelsFit(totals) == \A p \in DOMAIN totals : CellSize(totals[p], p) <= COLUMN_WIDTH

C24_FixedCellWidth ==
    /\ LevelsFit(total_buy_orders_at_price)
    /\ LevelsFit(total_sell_orders_at_price)
    /\ \A i \in Snapshots :
          /\ pc # "terminated"
          /\ \A r \in 1..Len(out[i].rows) :
                /\ CellWidth(out[i].rows[r].bid) = COLUMN_WIDTH
                /\ CellWidth(out[i].rows[r].ask) = COLUMN_WIDTH

(***************************************************************************)
(* C25.  The heap-based program.                                           *)
(***************************************************************************)
\* The addresses of the objects not deleted.
LiveOrders == DOMAIN allocated

\* C25: execute_and_print_trades of the heap-based implementation never
\* reads top() of an empty priority queue: the program is not stopped by
\* the library's check of top(), the pointers best_buy_order and
\* best_sell_order hold the address of a live order whenever they are
\* assigned, and the queue and the set of each side hold exactly the same
\* orders, all of them live.
C25_NoTopOfEmptyQueue ==
    /\ alt_pc # "aborted"
    /\ alt_best_buy_order \in LiveOrders \cup {NullPointer}
    /\ alt_best_sell_order \in LiveOrders \cup {NullPointer}
    /\ buy_order_queue = buy_order_set
    /\ sell_order_queue = sell_order_set
    /\ buy_order_queue \cup sell_order_queue \subseteq LiveOrders

(***************************************************************************)
(* C26.  The two programs on the same input.                               *)
(***************************************************************************)
\* The trades among the lines o, in the order printed.
PrintedTrades(o) == SelectSeq(o, LAMBDA l : l.kind = "trade")

\* The snapshots among the lines o.
PrintedBooks(o) == SelectSeq(o, LAMBDA l : l.kind = "book")

\* C26: fed the same submissions (prices of at most three decimals), the
\* two implementations have, whenever both are back at reading, accepted
\* or rejected the last submission alike, printed the same trades in the
\* same order, and printed the same rows of bid and ask levels.
C26_ImplementationsAgree ==
    (pc = "read" /\ alt_pc = "read" /\ attempts > 0) =>
        /\ success = alt_success
        /\ PrintedTrades(out) = PrintedTrades(alt_out)
        /\ PrintedBooks(out) = PrintedBooks(alt_out)

====
